---- MODULE Spec2Model ----
(***************************************************************************)
(* Deadline lifecycle scheduler: the GeneratedWork state machine, its two  *)
(* periodic drivers (generate-check, send-check) and the API / bot         *)
(* handlers that act on the same rows.                                     *)
(*                                                                         *)
(* Every actor (a scheduler job, an API request, a bot callback) works in  *)
(* its own SQLAlchemy session (expire_on_commit = False): it loads a row,  *)
(* keeps that copy, and a commit writes the columns whose value differs    *)
(* from the copy with UPDATE ... WHERE id = pk.  An action is one stretch  *)
(* of a handler between two awaits that touch the database or an external  *)
(* collaborator.  Time is counted in hours.                                *)
(***************************************************************************)
EXTENDS Integers, Sequences, FiniteSets, TLC

\* ------------------------------------------------------------- bounds
MaxWorks == 2
MaxDeadlines == 1
MaxDay == 2
MaxInFlight == 2
MaxDelivered == 2
MaxReminders == 3
MaxCommitFailures == 1
MaxRunning == 2
MaxMissed == 1
MaxEvents == 3
MaxSubjects == 4
MaxEntries == 2
MaxWorkReminders == 2

\* ---------------------------------------------------------- constants
\* a nullable column that holds None
NULL == -1
\* UserWorkSettings.generate_days_before default
DefaultGenerateDays == 5
\* UserWorkSettings.default_send_days_before default
DefaultSendDays == 1

\* ReminderSettings.hours_before default, and the list used when the row is missing
DefaultHoursBefore == <<72, 24, 12>>

\* UserWorkSettings.reminder_days_before default, and the list used when the
\* column is empty
DefaultReminderDays == <<3, 1>>
ReminderDays == {DefaultReminderDays[i] : i \in DOMAIN DefaultReminderDays}

\* timedelta(days = n) and timedelta(hours = h), in hours
TimedeltaDays(n) == n * 24
TimedeltaHours(h) == h

WorkIds == 1..MaxWorks
RemIds == 1..MaxReminders
Days == {TimedeltaDays(n) : n \in 0..MaxDay}
\* the deadline dates a request may carry
DeadlineDates == {TimedeltaDays(6)}
\* the scheduled_send_at values a request may carry
SendDates == {NULL, TimedeltaDays(1)}
\* the generate_days_before / default_send_days_before values a settings update may carry
\* the deadline dates an edit may carry
EditedDates == {TimedeltaDays(7)}
\* the hours_before lists a settings update may carry
HoursBeforeChoices == {DefaultHoursBefore, <<24, 24>>}
\* the instants at which the reminder side is looked at: 97 h, 72 h, 12 h and
\* 11 h before the deadline of DeadlineDates
RemTimes == {47, 72, 132, 133}
\* what generate_reminder_message may return: the model's text or the fallback line
GptText == 1
FallbackText == 2
Texts == {GptText, FallbackText}
GenerateDaysChoices == {DefaultGenerateDays}
SendDaysChoices == {DefaultSendDays, DefaultSendDays + 1}

Statuses == {"pending", "generating", "ready", "confirmed", "sent"}

VARIABLES
    now,        \* the clock (days)
    deadlines,  \* table deadlines: id -> row or NoRow
    works,      \* table generated_works: id -> row or NoRow
    settings,   \* the user's user_work_settings row or NoRow
    genTick,    \* job work_generator (check_and_generate_works)
    sendTick,   \* job work_sender (check_and_send_works)
    req,        \* the API request and the bot callback in flight
    reply,      \* the outcome the last finished request reported to the user
    delivered,  \* per work, the documents the notifier has delivered to the user
    creating,   \* the POST /generated-works requests between their check and their insert
    reminders,  \* table reminders: id -> row or NoRow
    remSettings, \* the user's reminder_settings row
    remTick,    \* job reminder_checker (check_and_send_reminders)
    remDelivered, \* per reminder, the messages the notifier has delivered to the user
    jobs,       \* per scheduler job, its running instances and its skipped runs
    workReminded, \* the work reminders sent to the user per deadline and days-before,
                \* and the instant of the job's last run
    feed,       \* per user, the events the user's iCal URL serves
    subjects,   \* table subjects: id -> row or NoRow
    entries,    \* table schedule_entries: id -> row or NoRow
    sync,       \* per caller of sync_user_schedule, its session and its position
    lastSynced  \* history: per user, the feed of the last sync that committed

\* what the reminder planner and dispatcher work on
remVars == <<reminders, remSettings, remTick, remDelivered>>

\* what the schedule sync works on
syncVars == <<feed, subjects, entries, sync, lastSynced>>

vars == <<now, deadlines, works, settings, genTick, sendTick, req, reply, delivered,
          creating, remVars, jobs, workReminded, syncVars>>

NoRow == [absent |-> TRUE]

\* ------------------------------------------------------- the ORM layer

\* session.commit() of a loaded object: UPDATE of the columns with a net change
\* since the load (or since this session's last commit), plus the columns in
\* forced (values an external collaborator produced anew).
Flush(row, loaded, local, forced) ==
    [f \in DOMAIN row |->
        IF f \in forced \/ local[f] /= loaded[f] THEN local[f] ELSE row[f]]

\* work_generator.create_document: the name and path depend on the deadline only
FileOf(deadline_id) == deadline_id

\* GeneratedWork(...) as inserted by the two creating endpoints
NewWork(deadline_id, scheduled_send_at, auto_send) ==
    [deadline_id |-> deadline_id,
     status |-> "pending",
     file_name |-> NULL,
     file_path |-> NULL,
     content_text |-> NULL,
     generated_at |-> NULL,
     confirmed_at |-> NULL,
     sent_at |-> NULL,
     scheduled_send_at |-> scheduled_send_at,
     auto_send |-> auto_send]

Exists(w) == works[w] /= NoRow

\* ids in ascending order, as the primary-key scan returns them
RECURSIVE SeqOf(_)
SeqOf(S) ==
    IF S = {} THEN <<>>
    ELSE LET m == CHOOSE x \in S : \A y \in S : x <= y
         IN <<m>> \o SeqOf(S \ {m})

IdleTick == [pc |-> "idle", queue |-> <<>>, loaded |-> NoRow, w |-> 0, at |-> 0]
\* the FastAPI router and the aiogram dispatcher
Actors == {"api", "bot"}
IdleReq == [op |-> "none", pc |-> "idle", w |-> 0, loaded |-> NoRow]
\* the POST /generated-works requests the server works on at a time
CreateSlots == 1..MaxInFlight
\* ------------------------------------------------ schedule sync: data
\* the users that have an ical_url
Users == {1, 2}
SubjectIds == 1..MaxSubjects
EntryIds == 1..MaxEntries
SubjectNames == {"Math", "Physics"}
ClassTypes == {"lecture", "practice"}
Rooms == {"A-1", "B-2"}
\* ISO week numbers of the event dates
WeekNumbers == {10, 11, 12}

\* a VEVENT as _parse_event reads it: the summary already split into subject
\* name and class type, the start as weekday, time and ISO week of the date
RawEvent(subject_name, class_type, room, week_number) ==
    [kind |-> "event",
     subject_name |-> subject_name,
     class_type |-> class_type,
     day_of_week |-> 0,
     start_time |-> "09:00",
     end_time |-> "10:30",
     room |-> room,
     teacher_name |-> NULL,
     week_number |-> week_number]

\* a VEVENT _parse_event gives up on: no DTSTART, a date without a time (an
\* all-day event), or a property whose reading raises
BadEvent == [RawEvent("Physics", "practice", "B-2", 11) EXCEPT !.kind = "unparseable"]

\* a component on which Calendar.from_ical raises: the feed is malformed
BrokenComponent == [RawEvent("Physics", "practice", "B-2", 11) EXCEPT !.kind = "malformed"]

RawEvents ==
    {RawEvent(n, c, r, k) : n \in SubjectNames, c \in ClassTypes, r \in Rooms,
                            k \in WeekNumbers}
        \cup {BadEvent, BrokenComponent}

\* every feed of at most MaxEvents events
AllFeeds == UNION {[1..n -> RawEvents] : n \in 0..MaxEvents}

\* the feeds the users' URLs serve while syncs run
FeedMath == <<RawEvent("Math", "lecture", "A-1", 10)>>
FeedMathMoved == <<RawEvent("Math", "lecture", "B-2", 11)>>
FeedBoth ==
    <<RawEvent("Math", "lecture", "A-1", 10), RawEvent("Physics", "lecture", "A-1", 11)>>
Feeds == {<<>>, FeedMath, FeedMathMoved, FeedBoth}

\* who calls sync_user_schedule: the ical_sync job (one session for all users),
\* and POST /schedule/sync or the bot's sync command (a session of its own)
SyncCallers == {"job", "api"}

IdleSync ==
    [pc |-> "idle", users |-> <<>>, user |-> 0, fed |-> <<>>, prev |-> <<>>,
     events |-> <<>>, patterns |-> <<>>, i |-> 0, created |-> 0, updated |-> 0,
     upd |-> <<>>, result |-> "none"]

\* no subject, no schedule entry, no sync running
InitSync ==
    /\ feed = [u \in Users |-> FeedMath]
    /\ subjects = [id \in SubjectIds |-> NoRow]
    /\ entries = [id \in EntryIds |-> NoRow]
    /\ sync = [s \in SyncCallers |-> IdleSync]
    /\ lastSynced = [u \in Users |-> <<>>]

\* the ids given to scheduler.add_job
JobIds == {"reminder_checker", "work_generator", "work_sender", "work_reminder", "ical_sync"}
\* add_job is called without max_instances: the scheduler's default applies
MaxInstances == 1
IdleJob == [running |-> 0, missed |-> 0]
IdleRemTick ==
    [pc |-> "idle", queue |-> <<>>, loaded |-> NoRow, r |-> 0, at |-> 0, text |-> NULL,
     settings |-> NoRow, expired |-> FALSE]

\* get_user_by_telegram_id / get_or_create_user: the row made with the user
NewReminderSettings == [hours_before |-> DefaultHoursBefore, is_enabled |-> TRUE]

\* no request in flight, no reminder planned, the settings as made with the user
InitPlanning ==
    /\ creating = [k \in CreateSlots |-> NoRow]
    /\ reminders = [r \in RemIds |-> NoRow]
    /\ remSettings = NewReminderSettings
    /\ remTick = IdleRemTick
    /\ remDelivered = [r \in RemIds |-> 0]
    /\ jobs = [j \in JobIds |-> IdleJob]
    /\ workReminded = [sent |-> [d \in WorkIds |-> [days \in ReminderDays |-> 0]],
                       at |-> NULL]

Init ==
    /\ now = 0
    /\ deadlines = [d \in WorkIds |-> NoRow]
    /\ works = [w \in WorkIds |-> NoRow]
    /\ settings = NoRow
    /\ genTick = IdleTick
    /\ sendTick = IdleTick
    /\ req = [a \in Actors |-> IdleReq]
    /\ reply = "none"
    /\ delivered = [w \in WorkIds |-> 0]
    /\ InitPlanning
    /\ InitSync

\* the clock
AdvanceDay ==
    /\ now < TimedeltaDays(MaxDay)
    /\ now' = now + TimedeltaDays(1)
    /\ UNCHANGED <<jobs, workReminded, syncVars, deadlines, works, settings, genTick, sendTick, req, reply, delivered, creating, remVars>>

\* ---------------------------------------------------- creating endpoints

\* a loop that also keeps the reminder whose send_at is now
RECURSIVE PlannedRemindersInclusive(_, _, _, _)
PlannedRemindersInclusive(deadline_id, deadline_date, hours_before_list, at) ==
    IF hours_before_list = <<>> THEN <<>>
    ELSE LET hours == Head(hours_before_list)
             send_at == deadline_date - TimedeltaHours(hours)
             rest == PlannedRemindersInclusive(deadline_id, deadline_date,
                                               Tail(hours_before_list), at)
         IN  IF send_at < at THEN rest
             ELSE <<[deadline_id |-> deadline_id,
                     hours_before |-> hours,
                     send_at |-> send_at,
                     is_sent |-> FALSE,
                     message |-> NULL]>> \o rest

\* create_reminders_for_deadline: the rows its loop adds, in list order
RECURSIVE PlannedReminders(_, _, _, _)
PlannedReminders(deadline_id, deadline_date, hours_before_list, at) ==
    IF hours_before_list = <<>> THEN <<>>
    ELSE LET hours == Head(hours_before_list)
             send_at == deadline_date - TimedeltaHours(hours)
             rest == PlannedReminders(deadline_id, deadline_date,
                                      Tail(hours_before_list), at)
         IN  IF send_at <= at THEN rest
             ELSE <<[deadline_id |-> deadline_id,
                     hours_before |-> hours,
                     send_at |-> send_at,
                     is_sent |-> FALSE,
                     message |-> NULL]>> \o rest

HoursBeforeList ==
    IF remSettings /= NoRow THEN remSettings.hours_before ELSE DefaultHoursBefore

\* the INSERTs of a commit, each row under the next primary key
RECURSIVE InsertAll(_, _)
InsertAll(table, rows) ==
    IF rows = <<>> THEN table
    ELSE LET id == CHOOSE r \in DOMAIN table :
                       table[r] = NoRow /\ \A q \in DOMAIN table : q < r => table[q] /= NoRow
         IN  InsertAll([table EXCEPT ![id] = Head(rows)], Tail(rows))

\* create_reminders_for_deadline and the commit of its caller
CreateReminders(deadline_id, deadline_date) ==
    LET rows == PlannedReminders(deadline_id, deadline_date, HoursBeforeList, now)
    IN  /\ Len(rows) <= Cardinality({r \in RemIds : reminders[r] = NoRow})
        /\ reminders' = InsertAll(reminders, rows)

\* the next primary key of generated_works
NextWorkId == CHOOSE w \in WorkIds : works[w] = NoRow /\ \A v \in WorkIds : v < w => works[v] /= NoRow

\* create_deadline_with_work: send_days_before
SendDaysBefore ==
    IF settings /= NoRow THEN settings.default_send_days_before ELSE DefaultSendDays

\* require_confirmation taken as auto_send, the `not` left out
RequireConfirmationAsIs == settings /= NoRow /\ settings.require_confirmation

\* create_deadline_with_work: auto_send
AutoSendDefault == ~(IF settings /= NoRow THEN settings.require_confirmation ELSE TRUE)

\* POST /deadlines-with-work: the deadline and its work in one commit
CreateDeadlineWithWork ==
    \E d \in WorkIds, date \in DeadlineDates :
        /\ Cardinality({e \in WorkIds : deadlines[e] /= NoRow}) < MaxDeadlines
        /\ deadlines[d] = NoRow
        /\ \A e \in WorkIds : e < d => deadlines[e] /= NoRow
        /\ \E w \in WorkIds : works[w] = NoRow
        /\ deadlines' = [deadlines EXCEPT ![d] = [deadline_date |-> date]]
        /\ works' = [works EXCEPT
               ![NextWorkId] = NewWork(d, date - TimedeltaDays(SendDaysBefore), AutoSendDefault)]
        /\ CreateReminders(d, date)
        /\ UNCHANGED <<jobs, workReminded, syncVars, now, settings, genTick, sendTick, req, reply, delivered, creating,
                       remSettings, remTick, remDelivered>>

\* POST /deadlines (and the bot's parsed message): a deadline without a work
CreateDeadline ==
    \E d \in WorkIds, date \in DeadlineDates :
        /\ Cardinality({e \in WorkIds : deadlines[e] /= NoRow}) < MaxDeadlines
        /\ deadlines[d] = NoRow
        /\ \A e \in WorkIds : e < d => deadlines[e] /= NoRow
        /\ deadlines' = [deadlines EXCEPT ![d] = [deadline_date |-> date]]
        /\ CreateReminders(d, date)
        /\ UNCHANGED <<jobs, workReminded, syncVars, now, works, settings, genTick, sendTick, req, reply, delivered, creating,
                       remSettings, remTick, remDelivered>>

\* a row of generated_works for deadline d
WorkOf(d) == {w \in WorkIds : Exists(w) /\ works[w].deadline_id = d}

\* POST /generated-works: the deadline is looked up, then a work for it; the
\* request ends with 400 when one exists
CreateGeneratedWorkCheck(k) ==
    \E d \in WorkIds, s \in SendDates, a \in BOOLEAN :
        /\ creating[k] = NoRow
        /\ \A j \in CreateSlots : j < k => creating[j] /= NoRow
        /\ deadlines[d] /= NoRow
        /\ \E w \in WorkIds : works[w] = NoRow
        /\ IF WorkOf(d) /= {}
           THEN reply' = "rejected" /\ UNCHANGED creating
           ELSE /\ creating' = [creating EXCEPT ![k] =
                       [deadline_id |-> d, scheduled_send_at |-> s, auto_send |-> a]]
                /\ UNCHANGED reply
        /\ UNCHANGED <<jobs, workReminded, syncVars, now, deadlines, works, settings, genTick, sendTick, req, delivered, remVars>>

\* a column without the constraint
NoConstraint(d) == TRUE

\* the unique constraint on generated_works.deadline_id
UniqueDeadline(d) == WorkOf(d) = {}

\* the INSERT and the commit; a second row for the deadline raises IntegrityError
CreateGeneratedWorkInsert(k) ==
    /\ creating[k] /= NoRow
    /\ LET c == creating[k]
       IN  IF UniqueDeadline(c.deadline_id)
           THEN /\ \E w \in WorkIds : works[w] = NoRow
                /\ works' = [works EXCEPT
                       ![NextWorkId] = NewWork(c.deadline_id, c.scheduled_send_at, c.auto_send)]
                /\ reply' = "ok"
           ELSE /\ reply' = "failed"
                /\ UNCHANGED works
    /\ creating' = [creating EXCEPT ![k] = NoRow]
    /\ UNCHANGED <<jobs, workReminded, syncVars, now, deadlines, settings, genTick, sendTick, req, delivered, remVars>>

\* PUT /settings/work
UpdateWorkSettings ==
    \E ag \in BOOLEAN, rc \in BOOLEAN, g \in GenerateDaysChoices, s \in SendDaysChoices :
        /\ settings' = [auto_generate |-> ag,
                        generate_days_before |-> g,
                        require_confirmation |-> rc,
                        default_send_days_before |-> s]
        /\ UNCHANGED <<jobs, workReminded, syncVars, now, deadlines, works, genTick, sendTick, req, reply, delivered, creating, remVars>>

\* ------------------------------------------- generate-check driver

DeadlineDate(row) == deadlines[row.deadline_id].deadline_date

\* the rows a query returns, each with the copy the session keeps
RECURSIVE LoadedSeq(_)
LoadedSeq(ids) ==
    IF ids = <<>> THEN <<>>
    ELSE <<[id |-> Head(ids), row |-> works[Head(ids)]]>> \o LoadedSeq(Tail(ids))

Loaded(S) == LoadedSeq(SeqOf(S))

PendingWorks == {w \in WorkIds : Exists(w) /\ works[w].status = "pending"}

\* check_and_generate_works: now, and the query for pending works
GenCheckQuery ==
    /\ genTick.pc = "idle"
    /\ genTick' = [IdleTick EXCEPT !.pc = "loop", !.queue = Loaded(PendingWorks), !.at = now]
    /\ UNCHANGED <<jobs, workReminded, syncVars, now, deadlines, works, settings, sendTick, req, reply, delivered, creating, remVars>>

\* the threshold test alone, without the auto_generate test
GenCheckDueAnySetting(item, at) ==
    /\ settings /= NoRow
    /\ at >= DeadlineDate(item.row) - TimedeltaDays(settings.generate_days_before)

\* the threshold test with the reported defaults standing in for a missing row
GenCheckDueDefaults(item, at) ==
    LET used == IF settings = NoRow
                THEN [auto_generate |-> TRUE, generate_days_before |-> 5]
                ELSE settings
    IN  /\ used.auto_generate
        /\ at >= DeadlineDate(item.row) - TimedeltaDays(used.generate_days_before)

\* the loop's two `continue`s: no settings row or auto_generate off; too early
GenCheckDue(item, at) ==
    /\ settings /= NoRow
    /\ settings.auto_generate
    /\ at >= DeadlineDate(item.row) - TimedeltaDays(settings.generate_days_before)

GenCheckSkip ==
    /\ genTick.pc = "loop" /\ genTick.w = 0 /\ genTick.queue /= <<>>
    /\ ~GenCheckDue(Head(genTick.queue), genTick.at)
    /\ genTick' = [genTick EXCEPT !.queue = Tail(@)]
    /\ UNCHANGED <<jobs, workReminded, syncVars, now, deadlines, works, settings, sendTick, req, reply, delivered, creating, remVars>>

\* _generate_work, first commit: status = "generating"
StartGenerating(row) == [row EXCEPT !.status = "generating"]

GenCheckBegin ==
    /\ genTick.pc = "loop" /\ genTick.w = 0 /\ genTick.queue /= <<>>
    /\ LET item == Head(genTick.queue)
           local == StartGenerating(item.row)
       IN  /\ GenCheckDue(item, genTick.at)
           /\ works' = [works EXCEPT ![item.id] = Flush(@, item.row, local, {})]
           /\ genTick' = [genTick EXCEPT !.queue = Tail(@), !.w = item.id, !.loaded = local]
    /\ UNCHANGED <<jobs, workReminded, syncVars, now, deadlines, settings, sendTick, req, reply, delivered, creating, remVars>>

\* the success branch shared by the three generation paths
GenerationReady(row, at) ==
    [row EXCEPT !.content_text = FileOf(row.deadline_id),
                !.file_name = FileOf(row.deadline_id),
                !.file_path = FileOf(row.deadline_id),
                !.status = "ready",
                !.generated_at = at]

\* the except branch shared by the three generation paths
GenerationFailed(row) == [row EXCEPT !.status = "pending"]

\* generation and document building succeed: second commit, then the notice
\* (_notify_work_ready swallows its own failures)
GenCallOk ==
    /\ genTick.w /= 0
    /\ LET local == GenerationReady(genTick.loaded, now)
       IN  works' = [works EXCEPT
               ![genTick.w] = Flush(@, genTick.loaded, local, {"content_text"})]
    /\ genTick' = [genTick EXCEPT !.w = 0, !.loaded = NoRow]
    /\ UNCHANGED <<jobs, workReminded, syncVars, now, deadlines, settings, sendTick, req, reply, delivered, creating, remVars>>

\* generation or document building raises: reset, commit, re-raise to the loop
GenCallFail ==
    /\ genTick.w /= 0
    /\ LET local == GenerationFailed(genTick.loaded)
       IN  works' = [works EXCEPT ![genTick.w] = Flush(@, genTick.loaded, local, {})]
    /\ genTick' = [genTick EXCEPT !.w = 0, !.loaded = NoRow]
    /\ UNCHANGED <<jobs, workReminded, syncVars, now, deadlines, settings, sendTick, req, reply, delivered, creating, remVars>>

GenCheckEnd ==
    /\ genTick.pc = "loop" /\ genTick.w = 0 /\ genTick.queue = <<>>
    /\ genTick' = IdleTick
    /\ UNCHANGED <<jobs, workReminded, syncVars, now, deadlines, works, settings, sendTick, req, reply, delivered, creating, remVars>>

\* ------------------------------------------------- send-check driver

Due(row, at) == row.scheduled_send_at /= NULL /\ row.scheduled_send_at <= at

\* first query: confirmed and due
ConfirmedDue(at) ==
    {w \in WorkIds : Exists(w) /\ works[w].status = "confirmed" /\ Due(works[w], at)}

\* ready and due, without the auto_send test
ReadyDue(at) ==
    {w \in WorkIds : Exists(w) /\ works[w].status = "ready" /\ Due(works[w], at)}

\* second query: ready, auto_send and due
AutoSendDue(at) ==
    {w \in WorkIds : Exists(w) /\ works[w].status = "ready"
                     /\ works[w].auto_send /\ Due(works[w], at)}

SendCheckQuery ==
    /\ sendTick.pc = "idle"
    /\ sendTick' = [IdleTick EXCEPT !.pc = "confirmed", !.queue = Loaded(ConfirmedDue(now)),
                                    !.at = now]
    /\ UNCHANGED <<jobs, workReminded, syncVars, now, deadlines, works, settings, genTick, req, reply, delivered, creating, remVars>>

SendCheckAuto ==
    /\ sendTick.pc = "confirmed" /\ sendTick.w = 0 /\ sendTick.queue = <<>>
    /\ sendTick' = [sendTick EXCEPT !.pc = "auto", !.queue = Loaded(AutoSendDue(sendTick.at))]
    /\ UNCHANGED <<jobs, workReminded, syncVars, now, deadlines, works, settings, genTick, req, reply, delivered, creating, remVars>>

\* _send_work up to the await of bot.send_document; it returns at once when
\* the copy has no file_path
SendItem ==
    /\ sendTick.pc \in {"confirmed", "auto"} /\ sendTick.w = 0 /\ sendTick.queue /= <<>>
    /\ LET item == Head(sendTick.queue)
       IN  IF item.row.file_path = NULL
           THEN sendTick' = [sendTick EXCEPT !.queue = Tail(@)]
           ELSE sendTick' = [sendTick EXCEPT !.queue = Tail(@), !.w = item.id,
                                             !.loaded = item.row]
    /\ UNCHANGED <<jobs, workReminded, syncVars, now, deadlines, works, settings, genTick, req, reply, delivered, creating, remVars>>

\* the status flip without the timestamp
MarkSentNoStamp(row, at) == [row EXCEPT !.status = "sent"]

\* _send_work after a delivered document
MarkSent(row, at) == [row EXCEPT !.status = "sent", !.sent_at = at]

SendCallOk ==
    /\ sendTick.w /= 0
    /\ delivered[sendTick.w] < MaxDelivered
    /\ delivered' = [delivered EXCEPT ![sendTick.w] = @ + 1]
    /\ LET local == MarkSent(sendTick.loaded, now)
       IN  works' = [works EXCEPT ![sendTick.w] = Flush(@, sendTick.loaded, local, {})]
    /\ sendTick' = [sendTick EXCEPT !.w = 0, !.loaded = NoRow]
    /\ UNCHANGED <<jobs, workReminded, syncVars, now, deadlines, settings, genTick, req, reply, creating, remVars>>

\* the notifier raises: nothing is written, the loop logs and goes on
SendCallFail ==
    /\ sendTick.w /= 0
    /\ sendTick' = [sendTick EXCEPT !.w = 0, !.loaded = NoRow]
    /\ UNCHANGED <<jobs, workReminded, syncVars, now, deadlines, works, settings, genTick, req, reply, delivered, creating, remVars>>

SendCheckEnd ==
    /\ sendTick.pc = "auto" /\ sendTick.w = 0 /\ sendTick.queue = <<>>
    /\ sendTick' = IdleTick
    /\ UNCHANGED <<jobs, workReminded, syncVars, now, deadlines, works, settings, genTick, req, reply, delivered, creating, remVars>>

\* ------------------------------------------------ requests of the user

\* a handler returns (or raises) with response r
Reply(a, r) == req' = [req EXCEPT ![a] = IdleReq] /\ reply' = r

\* a handler has loaded its row and awaits its next database or external call
Hold(a, op, pc, w, row) ==
    /\ req' = [req EXCEPT ![a] = [op |-> op, pc |-> pc, w |-> w, loaded |-> row]]
    /\ UNCHANGED reply

At(a, op, pc) == req[a].op = op /\ req[a].pc = pc

\* POST /generated-works/{id}/generate: the status check
ApiMayGenerate(status) == status \in {"pending", "ready"}

\* callback gen_work: the status check
BotMayGenerate(status) == status = "pending"

MayGenerate(a, status) ==
    IF a = "api" THEN ApiMayGenerate(status) ELSE BotMayGenerate(status)

\* generate_work_content / callback_generate_work: the select and the checks
GenerateLoad(a, w) ==
    /\ req[a].pc = "idle"
    /\ Exists(w)
    /\ IF ~MayGenerate(a, works[w].status) THEN Reply(a, "rejected")
       ELSE Hold(a, "generate", "loaded", w, works[w])
    /\ UNCHANGED <<jobs, workReminded, syncVars, now, deadlines, works, settings, genTick, sendTick, delivered, creating, remVars>>

\* status = "generating", commit
GenerateCommit(a) ==
    /\ At(a, "generate", "loaded")
    /\ LET local == StartGenerating(req[a].loaded)
       IN  /\ works' = [works EXCEPT ![req[a].w] = Flush(@, req[a].loaded, local, {})]
           /\ Hold(a, "generate", "call", req[a].w, local)
    /\ UNCHANGED <<jobs, workReminded, syncVars, now, deadlines, settings, genTick, sendTick, delivered, creating, remVars>>

\* callback_generate_work: the "generating..." answer, sent outside the try, raises
BotGenerateAckFail ==
    /\ At("bot", "generate", "call")
    /\ Reply("bot", "failed")
    /\ UNCHANGED <<jobs, workReminded, syncVars, now, deadlines, works, settings, genTick, sendTick, delivered, creating, remVars>>

\* generation and document building succeed: the row becomes ready; the bot
\* handler then answers "ready" inside the same try
GenerateOk(a) ==
    /\ At(a, "generate", "call")
    /\ LET local == GenerationReady(req[a].loaded, now)
       IN  /\ works' = [works EXCEPT
                  ![req[a].w] = Flush(@, req[a].loaded, local, {"content_text"})]
           /\ IF a = "api" THEN Reply(a, "ok")
              ELSE Hold(a, "generate", "notify", req[a].w, local)
    /\ UNCHANGED <<jobs, workReminded, syncVars, now, deadlines, settings, genTick, sendTick, delivered, creating, remVars>>

\* generation or document building raises: status = "pending", commit
GenerateFail(a) ==
    /\ At(a, "generate", "call")
    /\ LET local == GenerationFailed(req[a].loaded)
       IN  works' = [works EXCEPT ![req[a].w] = Flush(@, req[a].loaded, local, {})]
    /\ Reply(a, "failed")
    /\ UNCHANGED <<jobs, workReminded, syncVars, now, deadlines, settings, genTick, sendTick, delivered, creating, remVars>>

BotNotifyOk ==
    /\ At("bot", "generate", "notify")
    /\ Reply("bot", "ok")
    /\ UNCHANGED <<jobs, workReminded, syncVars, now, deadlines, works, settings, genTick, sendTick, delivered, creating, remVars>>

\* the "ready" answer raises inside the try: the except branch resets the status
BotNotifyFail ==
    /\ At("bot", "generate", "notify")
    /\ LET local == GenerationFailed(req["bot"].loaded)
       IN  works' = [works EXCEPT ![req["bot"].w] = Flush(@, req["bot"].loaded, local, {})]
    /\ Reply("bot", "failed")
    /\ UNCHANGED <<jobs, workReminded, syncVars, now, deadlines, settings, genTick, sendTick, delivered, creating, remVars>>

\* a check that lets every status through
MayConfirmAny(status) == status \in Statuses

\* confirm_work_sending / callback_confirm_work: the status check
MayConfirm(status) == status = "ready"

ConfirmLoad(a, w) ==
    /\ req[a].pc = "idle"
    /\ Exists(w)
    /\ IF ~MayConfirm(works[w].status) THEN Reply(a, "rejected")
       ELSE Hold(a, "confirm", "loaded", w, works[w])
    /\ UNCHANGED <<jobs, workReminded, syncVars, now, deadlines, works, settings, genTick, sendTick, delivered, creating, remVars>>

Confirmed(row, at) == [row EXCEPT !.status = "confirmed", !.confirmed_at = at]

ConfirmCommit(a) ==
    /\ At(a, "confirm", "loaded")
    /\ LET local == Confirmed(req[a].loaded, now)
       IN  works' = [works EXCEPT ![req[a].w] = Flush(@, req[a].loaded, local, {})]
    /\ Reply(a, "ok")
    /\ UNCHANGED <<jobs, workReminded, syncVars, now, deadlines, settings, genTick, sendTick, delivered, creating, remVars>>

\* callback_regenerate_work: the select (no status check)
RegenerateLoad(w) ==
    /\ req["bot"].pc = "idle"
    /\ Exists(w)
    /\ Hold("bot", "regenerate", "loaded", w, works[w])
    /\ UNCHANGED <<jobs, workReminded, syncVars, now, deadlines, works, settings, genTick, sendTick, delivered, creating, remVars>>

Reset(row) ==
    [row EXCEPT !.status = "pending", !.file_name = NULL, !.file_path = NULL,
                !.content_text = NULL, !.generated_at = NULL]

RegenerateCommit ==
    /\ At("bot", "regenerate", "loaded")
    /\ LET local == Reset(req["bot"].loaded)
       IN  works' = [works EXCEPT ![req["bot"].w] = Flush(@, req["bot"].loaded, local, {})]
    /\ Reply("bot", "ok")
    /\ UNCHANGED <<jobs, workReminded, syncVars, now, deadlines, settings, genTick, sendTick, delivered, creating, remVars>>

\* ------------------------------------------------ reminder dispatch

\* PUT /deadlines/{id}: the new deadline_date is stored, nothing else is touched
UpdateDeadline ==
    \E d \in WorkIds, date \in EditedDates :
        /\ deadlines[d] /= NoRow
        /\ deadlines' = [deadlines EXCEPT ![d] = [@ EXCEPT !.deadline_date = date]]
        /\ UNCHANGED <<jobs, workReminded, syncVars, now, works, settings, genTick, sendTick, req, reply, delivered, creating,
                       remVars>>

\* PUT /settings/reminders, and the bot's reminder settings dialogue
UpdateReminderSettings ==
    \E h \in HoursBeforeChoices, e \in BOOLEAN :
        /\ remSettings' = [hours_before |-> h, is_enabled |-> e]
        /\ UNCHANGED <<jobs, workReminded, syncVars, now, deadlines, works, settings, genTick, sendTick, req, reply, delivered,
                       creating, reminders, remTick, remDelivered>>

\* time passes up to the next instant looked at
Pass ==
    \E t \in RemTimes :
        /\ t > now
        /\ now' = t
        /\ UNCHANGED <<jobs, workReminded, syncVars, deadlines, works, settings, genTick, sendTick, req, reply, delivered,
                       creating, remVars>>

\* a WHERE clause without the send_at test
UnsentReminders(at) ==
    {r \in RemIds : reminders[r] /= NoRow /\ ~reminders[r].is_sent}

\* a WHERE clause that takes a reminder only at its very instant
ExactlyDueReminders(at) ==
    {r \in RemIds : reminders[r] /= NoRow /\ ~reminders[r].is_sent
                      /\ reminders[r].send_at = at}

\* a WHERE clause that drops a reminder half a day after its send_at
RecentlyDueReminders(at) ==
    {r \in RemIds : reminders[r] /= NoRow /\ ~reminders[r].is_sent
                      /\ reminders[r].send_at <= at /\ at - reminders[r].send_at < 12}

\* a WHERE clause without the is_sent test
DueReminders(at) ==
    {r \in RemIds : reminders[r] /= NoRow /\ reminders[r].send_at <= at}

\* get_pending_reminders: the WHERE clause
PendingReminders(at) ==
    {r \in RemIds : reminders[r] /= NoRow /\ ~reminders[r].is_sent
                      /\ reminders[r].send_at <= at}

RECURSIVE LoadedReminders(_)
LoadedReminders(ids) ==
    IF ids = <<>> THEN <<>>
    ELSE <<[id |-> Head(ids), row |-> reminders[Head(ids)]]>> \o LoadedReminders(Tail(ids))

\* check_and_send_reminders: a session, and the query for the due reminders
RemCheckQuery ==
    /\ remTick.pc = "idle"
    /\ remTick' = [IdleRemTick EXCEPT !.pc = "loop", !.at = now,
                       !.queue = LoadedReminders(SeqOf(PendingReminders(now)))]
    /\ UNCHANGED <<jobs, workReminded, syncVars, now, deadlines, works, settings, genTick, sendTick, req, reply, delivered,
                   creating, reminders, remSettings, remDelivered>>

\* `if settings and not settings.is_enabled: continue`
RemindersOff(row) == row /= NoRow /\ ~row.is_enabled

\* the settings the loop works with: the session keeps the settings object of
\* its first lookup and a later SELECT does not refresh it
SeenSettings == IF remTick.settings = NoRow THEN remSettings ELSE remTick.settings

\* the loop takes its next reminder: the user and the settings are looked up and
\* a disabled user's reminder is passed over. Once a commit has failed, the
\* session has rolled back and expired every loaded object, so `reminder.deadline`
\* raises and the except branch passes the reminder over.
RemItem ==
    /\ remTick.pc = "loop" /\ remTick.queue /= <<>>
    /\ LET item == Head(remTick.queue)
           seen == SeenSettings
       IN  IF remTick.expired
           THEN remTick' = [remTick EXCEPT !.queue = Tail(@)]
           ELSE IF RemindersOff(seen)
           THEN remTick' = [remTick EXCEPT !.queue = Tail(@), !.settings = seen]
           ELSE remTick' = [remTick EXCEPT !.queue = Tail(@), !.settings = seen,
                                           !.pc = "text", !.r = item.id, !.loaded = item.row]
    /\ UNCHANGED <<jobs, workReminded, syncVars, now, deadlines, works, settings, genTick, sendTick, req, reply, delivered,
                   creating, reminders, remSettings, remDelivered>>

\* generate_smart_advert: the model's text, or the fallback line built from the
\* deadline's title and subject when the model call raises
GenerateSmartAdvert(gpt_ok) == IF gpt_ok THEN GptText ELSE FallbackText

\* a text step whose model failure reaches the loop's except branch
RemTextRaises ==
    /\ remTick.pc = "text"
    /\ \E gpt_ok \in BOOLEAN :
          IF gpt_ok
          THEN remTick' = [remTick EXCEPT !.pc = "send", !.text = GptText]
          ELSE remTick' = [remTick EXCEPT !.pc = "loop", !.r = 0, !.loaded = NoRow]
    /\ UNCHANGED <<jobs, workReminded, syncVars, now, deadlines, works, settings, genTick, sendTick, req, reply, delivered,
                   creating, reminders, remSettings, remDelivered>>

\* generate_reminder_message: the model call succeeds or fails, a text comes back
\* either way
RemText ==
    /\ remTick.pc = "text"
    /\ \E gpt_ok \in BOOLEAN :
          remTick' = [remTick EXCEPT !.pc = "send", !.text = GenerateSmartAdvert(gpt_ok)]
    /\ UNCHANGED <<jobs, workReminded, syncVars, now, deadlines, works, settings, genTick, sendTick, req, reply, delivered,
                   creating, reminders, remSettings, remDelivered>>

\* a reminder that takes the text but is not marked sent
MarkedUnsent(row, message) == [row EXCEPT !.message = message]

\* mark_as_sent
MarkedAsSent(row, message) == [row EXCEPT !.is_sent = TRUE, !.message = message]

\* bot.send_message returns: mark_as_sent commits is_sent and the message
RemSendOk ==
    /\ remTick.pc = "send"
    /\ remDelivered' = [remDelivered EXCEPT ![remTick.r] = @ + 1]
    /\ LET local == MarkedAsSent(remTick.loaded, remTick.text)
       IN  reminders' = [reminders EXCEPT
               ![remTick.r] = Flush(@, remTick.loaded, local, {"message"})]
    /\ remTick' = [remTick EXCEPT !.pc = "loop", !.r = 0, !.loaded = NoRow, !.text = NULL]
    /\ UNCHANGED <<jobs, workReminded, syncVars, now, deadlines, works, settings, genTick, sendTick, req, reply, delivered,
                   creating, remSettings>>

\* bot.send_message raises: the loop logs and goes on, nothing is written
RemSendFail ==
    /\ remTick.pc = "send"
    /\ remTick' = [remTick EXCEPT !.pc = "loop", !.r = 0, !.loaded = NoRow, !.text = NULL]
    /\ UNCHANGED <<jobs, workReminded, syncVars, now, deadlines, works, settings, genTick, sendTick, req, reply, delivered,
                   creating, reminders, remSettings, remDelivered>>

\* bot.send_message returns, then the commit of mark_as_sent raises: the message
\* is out, the transaction is rolled back and the loop logs and goes on with a
\* session whose objects are all expired
RemCommitFail ==
    /\ remTick.pc = "send"
    /\ remDelivered[remTick.r] < MaxCommitFailures
    /\ remDelivered' = [remDelivered EXCEPT ![remTick.r] = @ + 1]
    /\ remTick' = [remTick EXCEPT !.pc = "loop", !.r = 0, !.loaded = NoRow, !.text = NULL,
                                   !.expired = TRUE]
    /\ UNCHANGED <<jobs, workReminded, syncVars, now, deadlines, works, settings, genTick, sendTick, req, reply, delivered,
                   creating, reminders, remSettings>>

RemCheckEnd ==
    /\ remTick.pc = "loop" /\ remTick.queue = <<>>
    /\ remTick' = IdleRemTick
    /\ UNCHANGED <<jobs, workReminded, syncVars, now, deadlines, works, settings, genTick, sendTick, req, reply, delivered,
                   creating, reminders, remSettings, remDelivered>>

\* ------------------------------------------------------ schedule sync

\* _parse_event: week parity from the ISO week number of the event date
WeekType(week_number) == IF week_number % 2 = 0 THEN "even" ELSE "odd"

\* _parse_event: the event's fields, or None for an event it cannot read
ParseEvent(raw) ==
    IF raw.kind /= "event" THEN NoRow
    ELSE
    [subject_name |-> raw.subject_name,
     class_type |-> raw.class_type,
     day_of_week |-> raw.day_of_week,
     start_time |-> raw.start_time,
     end_time |-> raw.end_time,
     room |-> raw.room,
     teacher_name |-> raw.teacher_name,
     week_type |-> WeekType(raw.week_number),
     week_number |-> raw.week_number]

\* parse_ical: the events of the feed that _parse_event could read, in feed
\* order; when from_ical raises, the except branch leaves the list empty
ParseIcal(ical_data) ==
    LET Parsed(event) == event /= NoRow
    IN  IF \E i \in DOMAIN ical_data : ical_data[i].kind = "malformed" THEN <<>>
        ELSE SelectSeq([i \in 1..Len(ical_data) |-> ParseEvent(ical_data[i])], Parsed)

\* a grouping key that leaves the class type out
KeyWithoutClassType(e) == <<e.subject_name, e.day_of_week, e.start_time>>

\* _group_events_to_patterns: the dict key
KeyOf(e) == <<e.subject_name, e.day_of_week, e.start_time, e.class_type>>

\* an aggregation that never looks at the parities
AlwaysBoth(week_types) == "both"

\* _group_events_to_patterns: the final week_type of a group
FinalWeekType(week_types) ==
    IF Cardinality(week_types) > 1 THEN "both" ELSE CHOOSE t \in week_types : TRUE

\* _group_events_to_patterns: the dict built by the loop, in insertion order; a
\* new key takes its fields from the first event that has it
RECURSIVE GroupLoop(_, _)
GroupLoop(events, patterns) ==
    IF events = <<>> THEN patterns
    ELSE LET event == Head(events)
             hit == {k \in DOMAIN patterns : KeyOf(patterns[k]) = KeyOf(event)}
             added == IF hit /= {} THEN patterns
                      ELSE Append(patterns,
                                  [subject_name |-> event.subject_name,
                                   day_of_week |-> event.day_of_week,
                                   start_time |-> event.start_time,
                                   end_time |-> event.end_time,
                                   room |-> event.room,
                                   class_type |-> event.class_type,
                                   teacher_name |-> event.teacher_name,
                                   week_types |-> {}])
             k == CHOOSE k \in DOMAIN added : KeyOf(added[k]) = KeyOf(event)
         IN  GroupLoop(Tail(events),
                       [added EXCEPT ![k].week_types = @ \cup {event.week_type}])

GroupEventsToPatterns(events) ==
    LET patterns == GroupLoop(events, <<>>)
    IN  [k \in DOMAIN patterns |->
            [subject_name |-> patterns[k].subject_name,
             day_of_week |-> patterns[k].day_of_week,
             start_time |-> patterns[k].start_time,
             end_time |-> patterns[k].end_time,
             room |-> patterns[k].room,
             class_type |-> patterns[k].class_type,
             teacher_name |-> patterns[k].teacher_name,
             week_type |-> FinalWeekType(patterns[k].week_types)]]

\* a row as session s sees it: committed, or written in s's open transaction
Visible(row, s) == row /= NoRow /\ (row.tx = "committed" \/ row.tx = s)

\* session.commit(): the rows of s's transaction become everybody's
Committed(table, s) ==
    [id \in DOMAIN table |->
        IF table[id] /= NoRow /\ table[id].tx = s
        THEN [table[id] EXCEPT !.tx = "committed"] ELSE table[id]]

\* the session is closed without a commit: the rows of its transaction are gone
RolledBack(table, s) ==
    [id \in DOMAIN table |->
        IF table[id] /= NoRow /\ table[id].tx = s THEN NoRow ELSE table[id]]

\* a commit that writes no attribute change
NotUpdated(table, upd) == table

\* a commit that writes the first attribute change to every row of the table
UpdatedEveryRow(table, upd) ==
    IF upd = <<>> THEN table
    ELSE [id \in DOMAIN table |->
             IF table[id] = NoRow THEN NoRow
             ELSE [table[id] EXCEPT !.end_time = upd[1].end_time, !.room = upd[1].room,
                                    !.teacher_name = upd[1].teacher_name,
                                    !.week_type = upd[1].week_type]]

\* the attribute changes of existing entries that s's commit writes
RECURSIVE Updated(_, _)
Updated(table, upd) ==
    IF upd = <<>> THEN table
    ELSE LET u == Head(upd)
         IN  Updated(IF table[u.id] = NoRow THEN table
                     ELSE [table EXCEPT ![u.id] =
                              [@ EXCEPT !.end_time = u.end_time, !.room = u.room,
                                        !.teacher_name = u.teacher_name,
                                        !.week_type = u.week_type]],
                     Tail(upd))

FreeId(table) == CHOOSE id \in DOMAIN table : table[id] = NoRow /\
                    \A other \in DOMAIN table : table[other] = NoRow => id <= other

\* the feed of a user changes
ChangeFeed ==
    \E u \in {1}, f \in Feeds :
        /\ feed[u] /= f
        /\ feed' = [feed EXCEPT ![u] = f]
        /\ UNCHANGED <<jobs, workReminded, now, deadlines, works, settings, genTick, sendTick, req, reply,
                       delivered, creating, remVars, subjects, entries, sync, lastSynced>>

\* POST /subjects: the subject is inserted, whatever names the user already has
CreateSubject ==
    \E u \in {1}, name \in SubjectNames :
        /\ \E id \in SubjectIds : subjects[id] = NoRow
        /\ Cardinality({id \in SubjectIds : subjects[id] /= NoRow
                                             /\ subjects[id].user_id = u}) < MaxSubjects - 1
        /\ subjects' = [subjects EXCEPT ![FreeId(subjects)] =
                           [user_id |-> u, name |-> name, tx |-> "committed"]]
        /\ UNCHANGED <<jobs, workReminded, now, deadlines, works, settings, genTick, sendTick, req, reply,
                       delivered, creating, remVars, feed, entries, sync, lastSynced>>

\* sync_all_schedules starts: one session, the users that have an ical_url
SyncAllStart ==
    /\ sync["job"].pc = "idle"
    /\ sync' = [sync EXCEPT !["job"] = [IdleSync EXCEPT !.pc = "next",
                                                        !.users = SeqOf(Users)]]
    /\ UNCHANGED <<jobs, workReminded, now, deadlines, works, settings, genTick, sendTick, req, reply,
                   delivered, creating, remVars, feed, subjects, entries, lastSynced>>

\* sync_all_schedules goes on to its next user, or leaves the session block:
\* what was never committed is rolled back
SyncAllNext ==
    /\ sync["job"].pc = "next"
    /\ IF sync["job"].users = <<>>
       THEN /\ sync' = [sync EXCEPT !["job"] = IdleSync]
            /\ subjects' = RolledBack(subjects, "job")
            /\ entries' = RolledBack(entries, "job")
       ELSE /\ sync' = [sync EXCEPT !["job"] =
                           [@ EXCEPT !.pc = "fetch", !.user = Head(sync["job"].users),
                                     !.users = Tail(sync["job"].users),
                                     !.prev = lastSynced[Head(sync["job"].users)]]]
            /\ UNCHANGED <<subjects, entries>>
    /\ UNCHANGED <<jobs, workReminded, now, deadlines, works, settings, genTick, sendTick, req, reply,
                   delivered, creating, remVars, feed, lastSynced>>

\* POST /schedule/sync, or the bot's sync command, for a user
ManualStart ==
    \E u \in {1} :
        /\ sync["api"].pc = "idle"
        /\ sync' = [sync EXCEPT !["api"] = [IdleSync EXCEPT !.pc = "fetch", !.user = u,
                                                            !.prev = lastSynced[u]]]
        /\ UNCHANGED <<jobs, workReminded, now, deadlines, works, settings, genTick, sendTick, req, reply,
                       delivered, creating, remVars, feed, subjects, entries, lastSynced>>

\* the call of caller s is over without a commit: the job keeps its session and
\* goes on, the request's session is closed
Ended(s, result) ==
    IF s = "job"
    THEN [sync["job"] EXCEPT !.pc = "next", !.result = result, !.events = <<>>,
                             !.patterns = <<>>, !.i = 0, !.fed = <<>>, !.prev = <<>>,
                             !.created = 0, !.updated = 0]
    ELSE [IdleSync EXCEPT !.result = result]

\* sync_user_schedule up to its loop: fetch_ical returns the feed or None,
\* parse_ical the events; no data or no event ends the call with success = False
SyncFetch(s) ==
    /\ sync[s].pc = "fetch"
    /\ \E fetched \in BOOLEAN :
          LET ical_data == IF fetched THEN feed[sync[s].user] ELSE <<>>
              events == ParseIcal(ical_data)
          IN  IF events = <<>>
              THEN sync' = [sync EXCEPT ![s] = Ended(s, "failed")]
              ELSE sync' = [sync EXCEPT ![s] =
                               [@ EXCEPT !.pc = "loop", !.fed = ical_data,
                                         !.events = events,
                                         !.patterns = GroupEventsToPatterns(events),
                                         !.i = 1, !.created = 0, !.updated = 0]]
    /\ UNCHANGED <<jobs, workReminded, now, deadlines, works, settings, genTick, sendTick, req, reply,
                   delivered, creating, remVars, feed, subjects, entries, lastSynced>>

\* _get_or_create_subject: the SELECT
SubjectsNamed(s, user_id, name) ==
    {id \in SubjectIds : Visible(subjects[id], s) /\ subjects[id].user_id = user_id
                          /\ subjects[id].name = name}

\* a lookup that never finds the entry
NoExisting(table, s, subject_id, pattern) == {}

\* sync_user_schedule: the SELECT of the schedule entry
ExistingEntries(table, s, subject_id, pattern) ==
    {id \in EntryIds : Visible(table[id], s) /\ table[id].subject_id = subject_id
                        /\ table[id].day_of_week = pattern.day_of_week
                        /\ table[id].start_time = pattern.start_time
                        /\ table[id].class_type = pattern.class_type}

NewEntry(s, subject_id, pattern) ==
    [subject_id |-> subject_id,
     day_of_week |-> pattern.day_of_week,
     start_time |-> pattern.start_time,
     end_time |-> pattern.end_time,
     room |-> pattern.room,
     class_type |-> pattern.class_type,
     week_type |-> pattern.week_type,
     teacher_name |-> pattern.teacher_name,
     tx |-> s]

\* one pass of the loop of sync_user_schedule.  scalar_one_or_none raises when
\* the SELECT finds more than one row; the exception ends the call where it is:
\* what the call has flushed or changed so far stays in the caller's session.
SyncPattern(s) ==
    /\ sync[s].pc = "loop"
    /\ LET pattern == sync[s].patterns[sync[s].i]
           user_id == sync[s].user
           named == SubjectsNamed(s, user_id, pattern.subject_name)
           subject_id == IF named = {} THEN FreeId(subjects) ELSE CHOOSE id \in named : TRUE
           flushed == IF named /= {} THEN subjects
                      ELSE [subjects EXCEPT ![subject_id] =
                               [user_id |-> user_id, name |-> pattern.subject_name,
                                tx |-> s]]
           existing == ExistingEntries(entries, s, subject_id, pattern)
           last == sync[s].i = Len(sync[s].patterns)
       IN  /\ named = {} => \E id \in SubjectIds : subjects[id] = NoRow
           /\ IF Cardinality(named) > 1
              THEN /\ sync' = [sync EXCEPT ![s] = Ended(s, "error")]
                   /\ subjects' = IF s = "job" THEN subjects ELSE RolledBack(subjects, s)
                   /\ entries' = IF s = "job" THEN entries ELSE RolledBack(entries, s)
              ELSE IF Cardinality(existing) > 1
              THEN /\ sync' = [sync EXCEPT ![s] = Ended(s, "error")]
                   /\ subjects' = IF s = "job" THEN flushed ELSE RolledBack(subjects, s)
                   /\ entries' = IF s = "job" THEN entries ELSE RolledBack(entries, s)
              ELSE IF existing /= {}
              THEN LET id == CHOOSE id \in existing : TRUE
                   IN  /\ sync' = [sync EXCEPT ![s] =
                                      [@ EXCEPT !.updated = @ + 1, !.i = @ + 1,
                                                !.pc = IF last THEN "commit" ELSE "loop",
                                                !.upd = Append(@, [id |-> id,
                                                    end_time |-> pattern.end_time,
                                                    room |-> pattern.room,
                                                    teacher_name |-> pattern.teacher_name,
                                                    week_type |-> pattern.week_type])]]
                       /\ subjects' = flushed
                       /\ UNCHANGED entries
              ELSE /\ \E id \in EntryIds : entries[id] = NoRow
                   /\ sync' = [sync EXCEPT ![s] =
                                  [@ EXCEPT !.created = @ + 1, !.i = @ + 1,
                                            !.pc = IF last THEN "commit" ELSE "loop"]]
                   /\ subjects' = flushed
                   /\ entries' = [entries EXCEPT ![FreeId(entries)] =
                                     NewEntry(s, subject_id, pattern)]
    /\ UNCHANGED <<jobs, workReminded, now, deadlines, works, settings, genTick, sendTick, req, reply,
                   delivered, creating, remVars, feed, lastSynced>>

\* sync_user_schedule: the commit after the loop, and the result
SyncCommit(s) ==
    /\ sync[s].pc = "commit"
    /\ subjects' = Committed(subjects, s)
    /\ entries' = Committed(Updated(entries, sync[s].upd), s)
    /\ lastSynced' = [lastSynced EXCEPT ![sync[s].user] = sync[s].fed]
    /\ sync' = [sync EXCEPT ![s] =
                   IF s = "job"
                   THEN [@ EXCEPT !.pc = "next", !.result = "ok", !.upd = <<>>,
                                  !.events = <<>>, !.patterns = <<>>, !.i = 0,
                                  !.fed = <<>>, !.prev = <<>>,
                                  !.created = 0, !.updated = 0]
                   ELSE [IdleSync EXCEPT !.result = "ok"]]
    /\ UNCHANGED <<jobs, workReminded, now, deadlines, works, settings, genTick, sendTick, req, reply,
                   delivered, creating, remVars, feed>>

\* ------------------------------------------- deadlines: delete, remind

\* the row of a deleted deadline: its primary key is not given out again
Deleted == [deleted |-> TRUE]

Live(d) == deadlines[d] /= NoRow /\ deadlines[d] /= Deleted

\* a delete that leaves the rows of the other tables alone
NoCascade(table, d) == table

\* cascade = "all, delete-orphan" on Deadline.reminders and
\* Deadline.generated_work: the rows that reference deadline d go with it
Cascade(table, d) ==
    [id \in DOMAIN table |->
        IF table[id] /= NoRow /\ table[id].deadline_id = d THEN NoRow ELSE table[id]]

\* DELETE /deadlines/{id}: session.delete(deadline) and the commit
DeleteDeadline ==
    \E d \in WorkIds :
        /\ Live(d)
        /\ deadlines' = [deadlines EXCEPT ![d] = Deleted]
        /\ reminders' = Cascade(reminders, d)
        /\ works' = Cascade(works, d)
        /\ UNCHANGED <<jobs, workReminded, syncVars, now, settings, genTick, sendTick, req,
                       reply, delivered, creating, remSettings, remTick, remDelivered>>

\* time passes beyond the date of a deadline
PassDeadline ==
    \E d \in WorkIds :
        /\ Live(d)
        /\ now <= deadlines[d].deadline_date
        /\ now' = deadlines[d].deadline_date + TimedeltaHours(1)
        /\ UNCHANGED <<jobs, workReminded, syncVars, deadlines, works, settings, genTick,
                       sendTick, req, reply, delivered, creating, remVars>>

\* GET /settings/work: the row, or the values answered when there is none
GetWorkSettings ==
    IF settings = NoRow
    THEN [auto_generate |-> TRUE,
          generate_days_before |-> 5,
          require_confirmation |-> TRUE,
          default_send_days_before |-> 1]
    ELSE settings

\* datetime.date(): the calendar day of an instant
DateOf(t) == t \div 24

\* _reminder_sent_today: "a simplified check"
ReminderSentToday(d, days) == FALSE

\* the (deadline, days) pairs for which send_work_reminders calls
\* _send_deadline_reminder at instant at (no deadline of the model is completed)
WorkRemindersDue(at) ==
    {pair \in WorkIds \X ReminderDays :
        /\ Live(pair[1])
        /\ DateOf(deadlines[pair[1]].deadline_date - TimedeltaDays(pair[2])) = DateOf(at)
        /\ ~ReminderSentToday(pair[1], pair[2])}

\* one run of job work_reminder (send_work_reminders), an hour or more after the
\* run before it: a user without a settings row is passed over;
\* _send_deadline_reminder swallows a failure of the notifier
SendWorkReminders ==
    /\ workReminded.at = NULL \/ now >= workReminded.at + TimedeltaHours(1)
    /\ LET due == IF settings = NoRow THEN {} ELSE WorkRemindersDue(now)
       IN  \E failed \in SUBSET due :
              /\ \A pair \in due \ failed :
                     workReminded.sent[pair[1]][pair[2]] < MaxWorkReminders
              /\ workReminded' =
                     [sent |-> [d \in WorkIds |-> [days \in ReminderDays |->
                                   IF <<d, days>> \in due \ failed
                                   THEN workReminded.sent[d][days] + 1
                                   ELSE workReminded.sent[d][days]]],
                      at |-> now]
    /\ UNCHANGED <<jobs, syncVars, now, deadlines, works, settings, genTick, sendTick, req,
                   reply, delivered, creating, remVars>>

\* ------------------------------------------------------ the job scheduler

\* a scheduler that starts a run whatever is running
MayStartAlways(j) == TRUE

\* the executor takes a run of job j only below the job's max_instances
MayStart(j) == jobs[j].running < MaxInstances

\* the interval trigger of job j fires: the run starts, or it is skipped because
\* the instance before it has not returned
Trigger(j) ==
    /\ IF MayStart(j)
       THEN /\ jobs[j].running < MaxRunning
            /\ jobs' = [jobs EXCEPT ![j].running = @ + 1]
       ELSE /\ jobs[j].missed < MaxMissed
            /\ jobs' = [jobs EXCEPT ![j].missed = @ + 1]
    /\ UNCHANGED <<workReminded, now, deadlines, works, settings, genTick, sendTick, req,
                   reply, delivered, creating, remVars, syncVars>>

\* an instance of job j returns
JobDone(j) ==
    /\ jobs[j].running > 0
    /\ jobs' = [jobs EXCEPT ![j].running = @ - 1]
    /\ UNCHANGED <<workReminded, now, deadlines, works, settings, genTick, sendTick, req,
                   reply, delivered, creating, remVars, syncVars>>

\* ------------------------------------------------------ specifications

\* the handlers that are between two awaits
InFlight ==
    Cardinality({a \in Actors : req[a].pc /= "idle"})
        + (IF genTick.pc = "idle" THEN 0 ELSE 1)
        + (IF sendTick.pc = "idle" THEN 0 ELSE 1)
        + Cardinality({k \in CreateSlots : creating[k] /= NoRow})
        + (IF remTick.pc = "idle" THEN 0 ELSE 1)

\* requests that are one commit
Requests ==
    \/ CreateDeadline
    \/ CreateDeadlineWithWork
    \/ UpdateWorkSettings

\* a job fires, a request or a callback arrives
Starts ==
    \/ GenCheckQuery
    \/ SendCheckQuery
    \/ \E a \in Actors, w \in WorkIds : GenerateLoad(a, w)
    \/ \E a \in Actors, w \in WorkIds : ConfirmLoad(a, w)
    \/ \E w \in WorkIds : RegenerateLoad(w)
    \/ \E k \in CreateSlots : CreateGeneratedWorkCheck(k)

\* a handler in flight goes on
GenTickSteps == GenCheckSkip \/ GenCheckBegin \/ GenCallOk \/ GenCallFail \/ GenCheckEnd

SendTickSteps ==
    SendCheckAuto \/ SendItem \/ SendCallOk \/ SendCallFail \/ SendCheckEnd

RequestSteps ==
    \/ \E a \in Actors : GenerateCommit(a)
    \/ \E a \in Actors : GenerateOk(a)
    \/ \E a \in Actors : GenerateFail(a)
    \/ BotGenerateAckFail
    \/ BotNotifyOk
    \/ BotNotifyFail
    \/ \E a \in Actors : ConfirmCommit(a)
    \/ RegenerateCommit
    \/ \E k \in CreateSlots : CreateGeneratedWorkInsert(k)

Steps == GenTickSteps \/ SendTickSteps \/ RequestSteps

\* Spec: the handlers run one after the other, each to its end, in any order,
\* while the clock advances.
Next ==
    \/ AdvanceDay
    \/ InFlight = 0 /\ Requests
    \/ InFlight = 0 /\ Starts
    \/ Steps

Spec == Init /\ [][Next]_vars

\* ConcSpec: the handlers interleave at their awaits; the clock and the settings
\* stay as the initial state has them.
DefaultSettings ==
    [auto_generate |-> TRUE,
     generate_days_before |-> DefaultGenerateDays,
     require_confirmation |-> TRUE,
     default_send_days_before |-> DefaultSendDays]

ConcInit ==
    /\ now = TimedeltaDays(MaxDay)
    /\ deadlines = [d \in WorkIds |-> NoRow]
    /\ works = [w \in WorkIds |-> NoRow]
    /\ settings \in {DefaultSettings, [DefaultSettings EXCEPT !.auto_generate = FALSE]}
    /\ genTick = IdleTick
    /\ sendTick = IdleTick
    /\ req = [a \in Actors |-> IdleReq]
    /\ reply = "none"
    /\ delivered = [w \in WorkIds |-> 0]
    /\ InitPlanning
    /\ InitSync

ConcNext ==
    \/ CreateDeadline
    \/ CreateDeadlineWithWork
    \/ InFlight < MaxInFlight /\ Starts
    \/ Steps

ConcSpec == ConcInit /\ [][ConcNext]_vars

\* FairSpec: as Spec, and the process may be restarted at any await: the sessions
\* and the handlers in flight are lost, the database is kept.  The scheduler
\* fires each job again and again, and a handler in flight goes on.
Crash ==
    /\ InFlight > 0
    /\ genTick' = IdleTick
    /\ sendTick' = IdleTick
    /\ req' = [a \in Actors |-> IdleReq]
    /\ creating' = [k \in CreateSlots |-> NoRow]
    /\ remTick' = IdleRemTick
    /\ UNCHANGED <<jobs, workReminded, syncVars, now, deadlines, works, settings, reply, delivered,
                   reminders, remSettings, remDelivered>>

FairNext == Next \/ Crash

FairSpec ==
    /\ Init
    /\ [][FairNext]_vars
    /\ SF_vars(InFlight = 0 /\ GenCheckQuery)
    /\ SF_vars(InFlight = 0 /\ SendCheckQuery)
    /\ WF_vars(Steps)

\* TickFairSpec: as Spec, without restarts: the interval triggers keep starting
\* work_generator and work_sender, every await of a handler returns, and the
\* document generator and the notifier succeed at some attempt if attempts go on.
TickFairSpec ==
    /\ Init
    /\ [][Next]_vars
    /\ SF_vars(InFlight = 0 /\ GenCheckQuery)
    /\ SF_vars(InFlight = 0 /\ SendCheckQuery)
    /\ WF_vars(Steps)
    /\ SF_vars(GenCallOk)
    /\ SF_vars(SendCallOk)

\* RemSpec: the reminder side.  Deadlines are created and edited, the reminder
\* settings change, and the reminder_checker job runs while these requests arrive
\* between its awaits.
RemInit ==
    /\ now \in {t \in RemTimes : \A u \in RemTimes : t <= u}
    /\ deadlines = [d \in WorkIds |-> NoRow]
    /\ works = [w \in WorkIds |-> NoRow]
    /\ settings = NoRow
    /\ genTick = IdleTick
    /\ sendTick = IdleTick
    /\ req = [a \in Actors |-> IdleReq]
    /\ reply = "none"
    /\ delivered = [w \in WorkIds |-> 0]
    /\ InitPlanning
    /\ InitSync

RemTickSteps ==
    RemItem \/ RemText \/ RemSendOk \/ RemSendFail \/ RemCommitFail \/ RemCheckEnd

RemNext ==
    \/ Pass
    \/ CreateDeadline
    \/ UpdateDeadline
    \/ UpdateReminderSettings
    \/ RemCheckQuery
    \/ RemTickSteps

RemSpec == RemInit /\ [][RemNext]_vars

\* RemOkSpec: the executions of RemSpec in which no commit of mark_as_sent fails.
RemOkNext ==
    \/ Pass
    \/ CreateDeadline
    \/ UpdateDeadline
    \/ UpdateReminderSettings
    \/ RemCheckQuery
    \/ RemItem
    \/ RemText
    \/ RemSendOk
    \/ RemSendFail
    \/ RemCheckEnd

RemOkSpec == RemInit /\ [][RemOkNext]_vars

\* DeadlineSpec: a deadline and its work from creation to deletion.  The four
\* drivers that look at deadlines tick one after the other, each to its end, and
\* the requests arrive between the ticks.
DeadlineNext ==
    \/ Pass
    \/ InFlight = 0 /\ CreateDeadlineWithWork
    \/ InFlight = 0 /\ UpdateWorkSettings
    \/ InFlight = 0 /\ DeleteDeadline
    \/ InFlight = 0 /\ GenCheckQuery
    \/ InFlight = 0 /\ SendCheckQuery
    \/ InFlight = 0 /\ RemCheckQuery
    \/ GenTickSteps
    \/ SendTickSteps
    \/ RemTickSteps

WorkSettingsNext ==
    \/ Pass
    \/ PassDeadline
    \/ InFlight = 0 /\ CreateDeadlineWithWork
    \/ InFlight = 0 /\ UpdateWorkSettings
    \/ InFlight = 0 /\ SendWorkReminders
    \/ InFlight = 0 /\ GenCheckQuery
    \/ GenTickSteps

WorkSettingsSpec == RemInit /\ [][WorkSettingsNext]_vars

DeadlineSpec == RemInit /\ [][DeadlineNext]_vars

\* JobSpec: the five interval jobs of lifespan, each firing while its own run may
\* still be going on.
JobNext == \E j \in JobIds : Trigger(j) \/ JobDone(j)

JobSpec == Init /\ [][JobNext]_vars

\* SyncSpec: the ical_sync job and a manual sync of user 1 run side by side while
\* the feed changes and subjects are created through the API.
SyncSteps == \E s \in SyncCallers : SyncFetch(s) \/ SyncPattern(s) \/ SyncCommit(s)

SyncNext ==
    \/ ChangeFeed
    \/ CreateSubject
    \/ SyncAllStart
    \/ SyncAllNext
    \/ ManualStart
    \/ SyncSteps

SyncSpec == Init /\ [][SyncNext]_vars

\* SyncOnlySpec: nothing but sync calls (and the feed) touches the schedule.
SyncOnlyNext ==
    \/ ChangeFeed
    \/ SyncAllStart
    \/ SyncAllNext
    \/ ManualStart
    \/ SyncSteps

SyncOnlySpec == Init /\ [][SyncOnlyNext]_vars

\* GroupSpec: one sync call, from its fetch to its commit, on any feed of at most
\* MaxEvents components.
GroupInit ==
    /\ now = 0
    /\ deadlines = [d \in WorkIds |-> NoRow]
    /\ works = [w \in WorkIds |-> NoRow]
    /\ settings = NoRow
    /\ genTick = IdleTick
    /\ sendTick = IdleTick
    /\ req = [a \in Actors |-> IdleReq]
    /\ reply = "none"
    /\ delivered = [w \in WorkIds |-> 0]
    /\ InitPlanning
    /\ \E ical_data \in AllFeeds :
          feed = [u \in Users |-> IF u = 1 THEN ical_data ELSE <<>>]
    /\ subjects = [id \in SubjectIds |-> NoRow]
    /\ entries = [id \in EntryIds |-> NoRow]
    /\ sync = [s \in SyncCallers |->
                  IF s = "api" THEN [IdleSync EXCEPT !.pc = "fetch", !.user = 1]
                  ELSE IdleSync]
    /\ lastSynced = [u \in Users |-> <<>>]

GroupNext == SyncFetch("api") \/ SyncPattern("api") \/ SyncCommit("api")

GroupSpec == GroupInit /\ [][GroupNext]_vars

\* RemFairSpec: the interval trigger keeps starting reminder_checker, every await
\* of a tick returns, and for each reminder the notifier call (with the commit
\* that follows it) succeeds at some attempt if attempts go on.
RemFairSpec ==
    /\ RemInit
    /\ [][RemNext]_vars
    /\ WF_vars(RemCheckQuery)
    /\ WF_vars(RemTickSteps)
    /\ \A r \in RemIds : SF_vars(RemSendOk /\ remTick.r = r)

\* ================================================================ claims

\* a step changes the status of work w from s to t
StatusEdge(w, s, t) ==
    /\ works[w] /= NoRow /\ works'[w] /= NoRow
    /\ works[w].status = s /\ works'[w].status = t

AllowedEdges ==
    {<<"pending", "generating">>, <<"generating", "ready">>, <<"generating", "pending">>,
     <<"ready", "confirmed">>, <<"ready", "sent">>, <<"confirmed", "sent">>,
     <<"ready", "pending">>, <<"confirmed", "pending">>}

\* C1: a work's status changes only along the allowed edges of the state
\* machine; in particular sent is terminal and generating is never entered
\* from ready.
C1_OnlyAllowedEdges ==
    [][\A w \in WorkIds : \A s, t \in Statuses :
          StatusEdge(w, s, t) /\ s /= t => <<s, t>> \in AllowedEdges]_vars

\* a request for op on work w arrives at actor a and is taken up / turned down
Accepted(a, op, w) ==
    /\ req[a].pc = "idle"
    /\ req'[a] = [op |-> op, pc |-> "loaded", w |-> w, loaded |-> works[w]]
    /\ works' = works

Rejected(a) ==
    /\ req[a].pc = "idle"
    /\ req' = req
    /\ reply' = "rejected"
    /\ works' = works

\* C2: an explicit generation request (API or bot) on a pending work is taken up
\* and moves the work to generating, whatever auto_generate says; on a work in
\* any other status it is rejected with an error and the status is unchanged.
C2_ExplicitGenerate ==
    [][/\ \A a \in Actors, w \in WorkIds :
             GenerateLoad(a, w) =>
                 IF works[w].status = "pending" THEN Accepted(a, "generate", w)
                 ELSE Rejected(a)
       /\ \A a \in Actors :
             GenerateCommit(a) =>
                 StatusEdge(req[a].w, "pending", "generating")]_vars

\* C3: a regeneration request on a work that is not ready or confirmed fails
\* with an error and leaves the status and the artifact fields unchanged.
C3_RegenerateRejected ==
    [][/\ \A w \in WorkIds :
             RegenerateLoad(w) /\ works[w].status \notin {"ready", "confirmed"} =>
                 Rejected("bot")
       /\ RegenerateCommit /\ req["bot"].loaded.status \notin {"ready", "confirmed"} =>
             works' = works /\ reply' = "rejected"]_vars

\* C4: a confirmation request (API or bot) on a ready work is taken up and its
\* commit moves the work to confirmed with confirmed_at = now; on any other
\* status it is rejected and the row is unchanged; nothing else sets confirmed
\* or writes confirmed_at.
C4_ConfirmOnlyFromReady ==
    [][/\ \A a \in Actors, w \in WorkIds :
             ConfirmLoad(a, w) =>
                 IF works[w].status = "ready" THEN Accepted(a, "confirm", w)
                 ELSE Rejected(a)
       /\ \A a \in Actors :
             ConfirmCommit(a) =>
                 /\ works[req[a].w].status = "ready"
                 /\ works' = [works EXCEPT ![req[a].w] =
                                  [@ EXCEPT !.status = "confirmed", !.confirmed_at = now]]
                 /\ reply' = "ok"
       /\ \A w \in WorkIds :
             /\ Exists(w) /\ works'[w] /= NoRow
             /\ \/ works[w].status /= "confirmed" /\ works'[w].status = "confirmed"
                \/ works'[w].confirmed_at /= works[w].confirmed_at
             => \E a \in Actors : ConfirmCommit(a) /\ req[a].w = w]_vars

\* a work confirmed on an earlier day, and a later request that was rejected
C4_Witness ==
    \E w \in WorkIds :
        /\ Exists(w) /\ works[w].status = "confirmed"
        /\ works[w].confirmed_at /= NULL /\ works[w].confirmed_at < now
        /\ reply = "rejected"

\* the generate-check condition for work w at tick time at
InGenerateWindow(w, at) ==
    /\ settings /= NoRow
    /\ settings.auto_generate
    /\ at >= deadlines[works[w].deadline_id].deadline_date
                 - TimedeltaDays(settings.generate_days_before)

\* the generate-check loop takes up its next item
GenCheckItem == GenCheckSkip \/ GenCheckBegin

\* C5: the generate-check driver moves the pending work it visits to generating
\* exactly when, at tick time, now >= deadline_date - generate_days_before and
\* auto_generate is on, and otherwise writes nothing; with generate_days_before
\* = 5 nothing happens at deadline - 6 days and the move fires at deadline - 4.
C5_GenCheckWindow ==
    [][GenCheckItem =>
          LET w == Head(genTick.queue).id
              date == deadlines[works[w].deadline_id].deadline_date
          IN  /\ works[w].status = "pending"
              /\ IF InGenerateWindow(w, genTick.at)
                 THEN /\ StatusEdge(w, "pending", "generating")
                      /\ \A v \in WorkIds \ {w} : works'[v] = works[v]
                 ELSE works' = works
              /\ settings /= NoRow /\ settings.generate_days_before = 5
                   /\ genTick.at = date - TimedeltaDays(6)
                 => works' = works
              /\ settings /= NoRow /\ settings.generate_days_before = 5
                   /\ settings.auto_generate /\ genTick.at = date - TimedeltaDays(4)
                 => StatusEdge(w, "pending", "generating")]_vars

\* the tick of day deadline - 4 has moved a work to generating
C5_Witness ==
    /\ genTick.w /= 0
    /\ settings /= NoRow /\ settings.generate_days_before = 5
    /\ genTick.at = deadlines[works[genTick.w].deadline_id].deadline_date - TimedeltaDays(4)
    /\ works[genTick.w].status = "generating"

\* the ids of a loaded sequence
IdsOf(queue) == {queue[i].id : i \in 1..Len(queue)}

\* work w is what the send-check may send at tick time at
Sendable(w, at) ==
    /\ works[w].scheduled_send_at /= NULL
    /\ at >= works[w].scheduled_send_at
    /\ \/ works[w].status = "confirmed"
       \/ works[w].status = "ready" /\ works[w].auto_send

\* C6: a work becomes sent only in a send-check step, only if at tick time
\* now >= scheduled_send_at and the work is confirmed, or ready with auto_send;
\* the two queries select exactly those works, so a ready work with auto_send
\* off is never taken up and a ready one with auto_send on goes straight to sent.
C6_SendCheckGuard ==
    [][/\ \A w \in WorkIds :
             /\ Exists(w) /\ works'[w] /= NoRow
             /\ works[w].status /= "sent" /\ works'[w].status = "sent"
             => /\ SendCallOk /\ sendTick.w = w
                /\ Sendable(w, sendTick.at)
       /\ SendCheckQuery \/ SendCheckAuto =>
             /\ IdsOf(sendTick'.queue) \subseteq {w \in WorkIds : Exists(w) /\ Sendable(w, sendTick'.at)}
             /\ \A w \in WorkIds :
                    Exists(w) /\ works[w].status = "ready" /\ ~works[w].auto_send
                    => w \notin IdsOf(sendTick'.queue)
       /\ SendCheckAuto =>
             IdsOf(sendTick'.queue) =
                 {w \in WorkIds : Exists(w) /\ works[w].status = "ready"
                                    /\ Sendable(w, sendTick.at)}
       /\ SendCheckQuery =>
             IdsOf(sendTick'.queue) =
                 {w \in WorkIds : Exists(w) /\ works[w].status = "confirmed"
                                    /\ Sendable(w, now)}]_vars

\* a work sent straight from ready: auto_send on, never confirmed
C6_Witness ==
    \E w \in WorkIds :
        /\ Exists(w) /\ works[w].status = "sent"
        /\ works[w].auto_send /\ works[w].confirmed_at = NULL
        /\ delivered[w] = 1

\* the send-check comes back from the notifier call for the work it holds
SendCallEnds == sendTick.w /= 0 /\ sendTick'.w = 0

\* C7: when the notifier call of the send-check fails, the row is unchanged and
\* the next tick's queries select it again; when it succeeds, the same step sets
\* status = sent and sent_at = now; a document is delivered in no other step.
C7_SendOutcome ==
    [][/\ SendCallEnds =>
             LET w == sendTick.w
             IN  IF delivered'[w] = delivered[w]
                 THEN /\ works' = works
                      /\ works[w].status \in {"ready", "confirmed"}
                      /\ Sendable(w, now)
                 ELSE /\ delivered'[w] = delivered[w] + 1
                      /\ works' = [works EXCEPT ![w] =
                                      [@ EXCEPT !.status = "sent", !.sent_at = now]]
       /\ delivered' /= delivered => SendCallEnds
       /\ \A w \in WorkIds :
             Exists(w) /\ works'[w] /= NoRow /\ works'[w].sent_at /= works[w].sent_at
             => SendCallEnds /\ sendTick.w = w /\ delivered'[w] /= delivered[w]]_vars

\* the notifier call for a confirmed, due work has failed: the tick has passed
\* the work, nothing was delivered and the row is as it was
C7_Witness ==
    \E w \in WorkIds :
        /\ Exists(w) /\ works[w].status = "confirmed" /\ works[w].file_path /= NULL
        /\ works[w].sent_at = NULL
        /\ sendTick.pc = "confirmed" /\ sendTick.w = 0
        /\ Sendable(w, sendTick.at)
        /\ w \notin IdsOf(sendTick.queue)
        /\ delivered[w] = 0

\* C8: when a generation attempt fails, on the driver's path or on an explicit
\* request's, the work ends pending and references no artifact: file_path,
\* file_name and the content snapshot are null.
C8_FailureLeavesNoArtifact ==
    [][\A w \in WorkIds :
          \/ GenCallFail /\ genTick.w = w
          \/ \E a \in Actors : GenerateFail(a) /\ req[a].w = w
          => /\ works'[w].status = "pending"
             /\ works'[w].file_path = NULL
             /\ works'[w].file_name = NULL
             /\ works'[w].content_text = NULL]_vars

\* C9: a work in status generating eventually leaves it, also after the
\* process was restarted between the commit of generating and the end of the
\* generation call.
C9_GeneratingEnds ==
    \A w \in WorkIds :
        (Exists(w) /\ works[w].status = "generating")
            ~> (Exists(w) /\ works[w].status /= "generating")

\* the actors that are in a generation call for work w
GeneratingActors(w) ==
    (IF genTick.w = w THEN {"work_generator"} ELSE {})
        \cup {a \in Actors : At(a, "generate", "call") /\ req[a].w = w}

\* the actors that are in a notifier call sending work w
SendingActors(w) == IF sendTick.w = w THEN {"work_sender"} ELSE {}

\* C10: under any interleaving of the generate-check, the send-check and the
\* explicit generation requests, at most one actor at a time is acting on a
\* work: one generation call per visit to pending, one send per visit to
\* ready/confirmed, and never a generation and a send together.
C10_OneActorPerWork ==
    \A w \in WorkIds :
        Cardinality(GeneratingActors(w)) + Cardinality(SendingActors(w)) <= 1

\* the step in which an actor comes back from its external call for work w,
\* having last seen the work in status seen
CompletesCall(w, seen) ==
    \/ /\ GenCallOk \/ GenCallFail
       /\ genTick.w = w /\ genTick.loaded.status = seen
    \/ \E a \in Actors :
          /\ GenerateOk(a) \/ GenerateFail(a)
          /\ req[a].w = w /\ req[a].loaded.status = seen
    \/ /\ SendCallOk
       /\ sendTick.w = w /\ sendTick.loaded.status = seen

\* C11: an actor that comes back from a generation or a send writes its result
\* only if the work is still in the status the actor set or observed; what
\* another actor committed in the meantime is not overwritten.
C11_NoStaleWrite ==
    [][\A w \in WorkIds : \A seen \in Statuses :
          CompletesCall(w, seen) /\ works[w].status /= seen
          => works'[w] = works[w]]_vars

\* C12: a regeneration started from ready or from confirmed ends with status
\* pending and with file_path, file_name, the content snapshot, generated_at
\* and confirmed_at all cleared.
C12_RegenerateClears ==
    [][RegenerateCommit /\ works[req["bot"].w].status \in {"ready", "confirmed"}
       => LET row == works'[req["bot"].w]
          IN  /\ row.status = "pending"
              /\ row.file_path = NULL
              /\ row.file_name = NULL
              /\ row.content_text = NULL
              /\ row.generated_at = NULL
              /\ row.confirmed_at = NULL]_vars

\* C13: in every reachable state a work that is ready, confirmed or sent has a
\* file_path and a generated_at; no state shows one of these statuses with the
\* artifact missing.
C13_ArtifactPresent ==
    \A w \in WorkIds :
        Exists(w) /\ works[w].status \in {"ready", "confirmed", "sent"}
        => works[w].file_path /= NULL /\ works[w].generated_at /= NULL

\* C14: in every reachable state there is at most one GeneratedWork per
\* Deadline, also when creation requests for the same deadline interleave.
C14_OneWorkPerDeadline ==
    \A d \in WorkIds : Cardinality(WorkOf(d)) <= 1

\* a second creation request has passed its check and is about to insert while
\* the first one's row is already there
C14_Witness ==
    \E k \in CreateSlots :
        /\ creating[k] /= NoRow
        /\ WorkOf(creating[k].deadline_id) /= {}

\* a step inserts work w together with its deadline
CreatedWithDeadline(w) ==
    /\ works[w] = NoRow /\ works'[w] /= NoRow
    /\ deadlines[works'[w].deadline_id] = NoRow
    /\ deadlines'[works'[w].deadline_id] /= NoRow

\* C15: a work created together with its deadline starts pending, has
\* auto_send = true exactly when the work settings say require_confirmation =
\* false (false without settings), and scheduled_send_at = deadline_date -
\* default_send_days_before days (1 day without settings).
C15_CreationDefaults ==
    [][\A w \in WorkIds :
          CreatedWithDeadline(w) =>
              LET row == works'[w]
                  date == deadlines'[row.deadline_id].deadline_date
              IN  /\ row.status = "pending"
                  /\ row.auto_send = (settings /= NoRow /\ ~settings.require_confirmation)
                  /\ row.scheduled_send_at =
                         IF settings = NoRow THEN date - 24
                         ELSE date - 24 * settings.default_send_days_before]_vars

\* a work created with its deadline under settings that ask for no confirmation
\* and for sending two days ahead
C15_Witness ==
    \E w \in WorkIds :
        /\ Exists(w) /\ works[w].auto_send
        /\ works[w].scheduled_send_at = deadlines[works[w].deadline_id].deadline_date - 48

\* the reminder rows a step inserts
NewReminders == {r \in RemIds : reminders[r] = NoRow /\ reminders'[r] /= NoRow}

\* the values of a list
Range(list) == {list[i] : i \in 1..Len(list)}

\* a step inserts deadline d, and with it its reminders
DeadlinePlanned(d) == deadlines[d] = NoRow /\ deadlines'[d] /= NoRow

\* C16: planning for deadline D with offset list H at instant now creates a
\* reminder for offset h exactly when D.deadline_date - h hours > now, strictly;
\* with offsets 72, 24, 12 it creates three reminders 97 hours before the deadline
\* (day 16 09:00 for day 20 10:00) and none 11 hours before (day 19 23:00).
C16_PlanFutureOnly ==
    [][\A d \in WorkIds :
          DeadlinePlanned(d) =>
              LET date == deadlines'[d].deadline_date
                  H == remSettings.hours_before
              IN  /\ \A h \in 1..72 :
                         (\E r \in NewReminders : reminders'[r].hours_before = h)
                             <=> (h \in Range(H) /\ date - h > now)
                  /\ \A r \in NewReminders :
                         /\ reminders'[r].deadline_id = d
                         /\ reminders'[r].send_at = date - reminders'[r].hours_before
                         /\ ~reminders'[r].is_sent
                         /\ reminders'[r].message = NULL
                  /\ H = <<72, 24, 12>> /\ now = date - 97 => Cardinality(NewReminders) = 3
                  /\ H = <<72, 24, 12>> /\ now = date - 11 => Cardinality(NewReminders) = 0]_vars

\* planned exactly 72 hours ahead with offsets 72, 24, 12: the 72-hour reminder
\* is not created, the other two are
C16_Witness ==
    /\ \E d \in WorkIds : deadlines[d] /= NoRow /\ now = deadlines[d].deadline_date - 72
    /\ {reminders[r].hours_before : r \in {q \in RemIds : reminders[q] /= NoRow}} = {24, 12}

\* C17: whatever planning has been done, there is at most one Reminder row per
\* (deadline, hours_before) pair.
C17_OneReminderPerOffset ==
    \A r, q \in RemIds :
        /\ reminders[r] /= NoRow /\ reminders[q] /= NoRow
        /\ reminders[r].deadline_id = reminders[q].deadline_id
        /\ reminders[r].hours_before = reminders[q].hours_before
        => r = q

\* C18: in every reachable state every Reminder has send_at = its deadline's
\* deadline_date - hours_before hours, also after the deadline's date was edited.
C18_SendAtFollowsDeadline ==
    \A r \in RemIds :
        reminders[r] /= NoRow /\ deadlines[reminders[r].deadline_id] /= NoRow
        => reminders[r].send_at =
               deadlines[reminders[r].deadline_id].deadline_date - reminders[r].hours_before

\* reminder r is unsent and due at instant at
DueUnsent(r, at) ==
    reminders[r] /= NoRow /\ ~reminders[r].is_sent /\ reminders[r].send_at <= at

\* C19: a reminder-dispatch tick takes up exactly the reminders that are unsent
\* and have send_at <= now when it queries; a reminder with send_at > now or
\* with is_sent = true is never delivered.
C19_DispatchSelectsDueUnsent ==
    [][/\ RemCheckQuery =>
             /\ IdsOf(remTick'.queue) = {r \in RemIds : DueUnsent(r, now)}
             /\ Len(remTick'.queue) = Cardinality({r \in RemIds : DueUnsent(r, now)})
       /\ \A r \in RemIds :
             remDelivered'[r] /= remDelivered[r] =>
                 /\ DueUnsent(r, remTick.at)
                 /\ remTick.at <= now]_vars

\* a tick has delivered the due reminder while a later one of the same deadline
\* is left alone
C19_Witness ==
    \E r, q \in RemIds :
        /\ reminders[r] /= NoRow /\ reminders[r].is_sent /\ remDelivered[r] = 1
        /\ reminders[q] /= NoRow /\ reminders[q].send_at > now
        /\ ~reminders[q].is_sent /\ remDelivered[q] = 0
        /\ remTick.pc = "loop" /\ remTick.queue = <<>>

C21_DisabledNeverDelivered ==
    [][(RemItem /\ remTick'.pc = "text") => ~RemindersOff(remSettings)]_vars

\* C22: a failure on one item of a tick does not abort the tick: every candidate
\* the loop takes up afterwards is processed as the driver prescribes (passed
\* over when the user's reminders are disabled, rendered and handed to the
\* notifier otherwise), whatever happened to the items before it.
C22_FailureIsolated ==
    [][RemItem =>
          IF RemindersOff(SeenSettings)
          THEN remTick'.pc = "loop"
          ELSE remTick'.pc = "text" /\ remTick'.r = Head(remTick.queue).id]_vars

\* C23: a failing text generator never stops a reminder: the dispatcher goes on
\* to the notifier with the fallback text, and a successful delivery marks the
\* reminder sent with that text.
C23_TextFallback ==
    [][/\ (remTick.pc = "text" /\ remTick' /= remTick) =>
             /\ remTick'.pc = "send" /\ remTick'.r = remTick.r
             /\ remTick'.text \in Texts
       /\ (RemSendOk /\ remTick.text = FallbackText) =>
             /\ reminders'[remTick.r].is_sent
             /\ reminders'[remTick.r].message = FallbackText
             /\ remDelivered'[remTick.r] = remDelivered[remTick.r] + 1]_vars

\* a reminder delivered and marked sent with the fallback text
C23_Witness ==
    \E r \in RemIds :
        /\ reminders[r] /= NoRow /\ reminders[r].is_sent
        /\ reminders[r].message = FallbackText /\ remDelivered[r] = 1

\* reminder r exists and is marked sent
Sent(r) == reminders[r] /= NoRow /\ reminders[r].is_sent

\* C24: with the job ticking on and the notifier succeeding at some attempt,
\* every due unsent reminder of a user whose reminders stay enabled is
\* eventually marked sent; a failed delivery only puts it off to a later tick.
C24_DueEventuallySent ==
    (<>[](remSettings.is_enabled)) =>
        \A r \in RemIds : (DueUnsent(r, now) ~> Sent(r))

\* a reminder marked sent by a tick that ran after the instant it fell due, a
\* delivery attempt before it having been lost
C24_Witness ==
    \E r \in RemIds :
        /\ Sent(r) /\ remDelivered[r] = 2
        /\ remTick.at > reminders[r].send_at

\* C25: no two executions of one periodic job overlap; a run that falls due
\* while the one before it has not returned is skipped.
C25_SingleFlight == \A j \in JobIds : jobs[j].running <= 1

\* a job whose run outlived its interval: one instance running, the next skipped
C25_Witness ==
    \E j \in JobIds : jobs[j].running = 1 /\ jobs[j].missed = 1

\* the user a schedule entry belongs to, through its subject
EntryUser(id) == subjects[entries[id].subject_id].user_id

\* C26: nothing a failed sync_user_schedule call created or changed is ever
\* persisted.  A session syncs a user at most once, so at a commit every row and
\* every change in the session's transaction must belong to the user whose call
\* commits; anything of another user was left there by a call that failed.
C26_FailedSyncPersistsNothing ==
    [][\A s \in SyncCallers :
          SyncCommit(s) =>
              /\ \A id \in SubjectIds :
                    (subjects[id] /= NoRow /\ subjects[id].tx = s) =>
                        subjects[id].user_id = sync[s].user
              /\ \A id \in EntryIds :
                    (entries[id] /= NoRow /\ entries[id].tx = s) =>
                        EntryUser(id) = sync[s].user
              /\ \A k \in DOMAIN sync[s].upd :
                    EntryUser(sync[s].upd[k].id) = sync[s].user]_vars

\* the committed rows of a user
SubjectsOf(table, u) ==
    {id \in SubjectIds : table[id] /= NoRow /\ table[id].tx = "committed"
                          /\ table[id].user_id = u}

EntriesOf(table, subjectTable, u) ==
    {id \in EntryIds : table[id] /= NoRow /\ table[id].tx = "committed"
                        /\ subjectTable[table[id].subject_id].user_id = u}

\* C27: a sync call that begins after a sync of the same user has committed,
\* and fetches the feed that sync fetched, ends with created = 0 and leaves the
\* user's Subject and ScheduleEntry rows as many as they were.
C27_SecondSyncCreatesNothing ==
    [][\A s \in SyncCallers :
          (SyncCommit(s) /\ sync[s].fed /= <<>> /\ sync[s].prev = sync[s].fed) =>
              /\ sync[s].created = 0
              /\ sync[s].updated = Len(sync[s].patterns)
              /\ SubjectsOf(subjects', sync[s].user) = SubjectsOf(subjects, sync[s].user)
              /\ EntriesOf(entries', subjects', sync[s].user)
                     = EntriesOf(entries, subjects, sync[s].user)]_vars

\* a second sync against the unchanged feed is about to commit: nothing
\* created, every pattern matched
C27_Witness ==
    \E s \in SyncCallers :
        /\ sync[s].pc = "commit"
        /\ sync[s].fed = FeedBoth /\ sync[s].prev = FeedBoth
        /\ sync[s].created = 0 /\ sync[s].updated = 2

Persisted(row) == row /= NoRow /\ row.tx = "committed"

\* C28: no two persisted ScheduleEntry rows share (subject, day_of_week,
\* start_time, class_type) and no two persisted Subjects of one user share a
\* name, whatever sync calls have run, overlapping ones included.
C28_UniqueScheduleRows ==
    /\ \A i, j \in EntryIds :
          (i /= j /\ Persisted(entries[i]) /\ Persisted(entries[j])) =>
              <<entries[i].subject_id, entries[i].day_of_week, entries[i].start_time,
                entries[i].class_type>>
                  /= <<entries[j].subject_id, entries[j].day_of_week,
                       entries[j].start_time, entries[j].class_type>>
    /\ \A i, j \in SubjectIds :
          (i /= j /\ Persisted(subjects[i]) /\ Persisted(subjects[j])) =>
              <<subjects[i].user_id, subjects[i].name>>
                  /= <<subjects[j].user_id, subjects[j].name>>

\* the key the grouping is specified on
PatternKey(e) == <<e.subject_name, e.day_of_week, e.start_time, e.class_type>>

\* the call whose grouping is looked at, once it has grouped
Grouped == sync["api"].pc = "loop"

\* C29: _group_events_to_patterns returns exactly one pattern per distinct key
\* (subject name, weekday, start time, class category) among the events: equal
\* keys are merged, different keys never are.
C29_OnePatternPerKey ==
    Grouped =>
        LET events == sync["api"].events
            patterns == sync["api"].patterns
        IN  /\ {PatternKey(patterns[k]) : k \in DOMAIN patterns}
                   = {PatternKey(events[i]) : i \in DOMAIN events}
            /\ \A k, l \in DOMAIN patterns :
                   PatternKey(patterns[k]) = PatternKey(patterns[l]) => k = l

\* three events, two of them with one key: two patterns
C29_Witness ==
    /\ Grouped
    /\ Len(sync["api"].events) = 3 /\ Len(sync["api"].patterns) = 2
    /\ PatternKey(sync["api"].events[1]) = PatternKey(sync["api"].events[3])
    /\ sync["api"].events[1].subject_name = sync["api"].events[2].subject_name
    /\ sync["api"].events[1].class_type /= sync["api"].events[2].class_type

\* C30: a pattern's week_type is "both" when its group has an event of an even
\* ISO week and one of an odd ISO week, and the one parity seen otherwise; events
\* on ISO weeks 10, 11, 12 with one key give one pattern with week_type "both".
C30_WeekTypeAggregation ==
    Grouped =>
        LET events == sync["api"].events
            patterns == sync["api"].patterns
        IN  /\ \A k \in DOMAIN patterns :
                  LET group == {i \in DOMAIN events :
                                    PatternKey(events[i]) = PatternKey(patterns[k])}
                      even == \E i \in group : events[i].week_number % 2 = 0
                      odd == \E i \in group : events[i].week_number % 2 /= 0
                  IN  patterns[k].week_type =
                          IF even /\ odd THEN "both" ELSE IF even THEN "even" ELSE "odd"
            /\ (/\ Len(events) = 3
                /\ \A i \in DOMAIN events : PatternKey(events[i]) = PatternKey(events[1])
                /\ [i \in DOMAIN events |-> events[i].week_number] = <<10, 11, 12>>)
                   => (Len(patterns) = 1 /\ patterns[1].week_type = "both")

\* the events of ISO weeks 10, 11, 12 with one key, grouped into one pattern
C30_Witness ==
    /\ Grouped
    /\ Len(sync["api"].events) = 3
    /\ \A i \in 1..3 : PatternKey(sync["api"].events[i]) = PatternKey(sync["api"].events[1])
    /\ \A i \in 1..3 : sync["api"].events[i].week_number = 9 + i
    /\ Len(sync["api"].patterns) = 1 /\ sync["api"].patterns[1].week_type = "both"

\* the entries of the tables that session s sees under the key of pattern p for
\* user u: the subject by its name, then weekday, start time and class category
KeyMatches(subjectTable, entryTable, s, u, p) ==
    {id \in EntryIds :
        /\ Visible(entryTable[id], s)
        /\ subjectTable[entryTable[id].subject_id] /= NoRow
        /\ subjectTable[entryTable[id].subject_id].user_id = u
        /\ subjectTable[entryTable[id].subject_id].name = p.subject_name
        /\ entryTable[id].day_of_week = p.day_of_week
        /\ entryTable[id].start_time = p.start_time
        /\ entryTable[id].class_type = p.class_type}

Unparseable(ical_data) == \E i \in DOMAIN ical_data : ical_data[i].kind /= "event"

\* C32: a sync call whose feed is malformed or holds an event that cannot be
\* parsed is aborted with a failure result, and no pattern of that feed is
\* created or updated.
C32_ParseFailureAborts ==
    [][\A s \in SyncCallers :
          /\ (SyncFetch(s) /\ Unparseable(feed[sync[s].user])) =>
                /\ sync'[s].result = "failed"
                /\ sync'[s].pc \in {"idle", "next"}
          /\ (SyncPattern(s) \/ SyncCommit(s)) => ~Unparseable(sync[s].fed)]_vars

\* the key of a stored entry as the feed names it: subject name, weekday, start
\* time, class category
StoredKey(id) ==
    <<subjects[entries[id].subject_id].name, entries[id].day_of_week,
      entries[id].start_time, entries[id].class_type>>

\* C40: a sync never deletes a stored ScheduleEntry, and it changes one only as
\* the match of a pattern of the feed it fetched: at a commit the entries of the
\* syncing user whose key is not among the patterns are what they were, and so
\* the stored entries only grow in number.
C40_AbsentEntriesKept ==
    [][/\ \A id \in EntryIds :
             Persisted(entries[id]) =>
                 /\ Persisted(entries'[id])
                 /\ entries'[id] /= entries[id] =>
                       \E s \in SyncCallers :
                           /\ SyncCommit(s)
                           /\ \E k \in DOMAIN sync[s].upd : sync[s].upd[k].id = id
       /\ \A s \in SyncCallers :
             /\ (SyncPattern(s) /\ Len(sync'[s].upd) > Len(sync[s].upd)) =>
                   sync'[s].upd[Len(sync'[s].upd)].id
                       \in KeyMatches(subjects, entries, s, sync[s].user,
                                      sync[s].patterns[sync[s].i])
             /\ SyncCommit(s) =>
                   \A id \in EntryIds :
                       (/\ Persisted(entries[id])
                        /\ EntryUser(id) = sync[s].user
                        /\ StoredKey(id) \notin {PatternKey(sync[s].patterns[k]) :
                                                    k \in DOMAIN sync[s].patterns})
                       => entries'[id] = entries[id]]_vars

\* the feed had Math and Physics when it was last synced and has only the moved
\* Math lecture now: the sync of it has committed and the Physics entry is
\* stored as it was
C40_Witness ==
    /\ lastSynced[1] = FeedMathMoved
    /\ \E id, other \in EntryIds :
          /\ Persisted(entries[id]) /\ EntryUser(id) = 1
          /\ StoredKey(id)[1] = "Physics" /\ entries[id].room = "A-1"
          /\ Persisted(entries[other]) /\ EntryUser(other) = 1
          /\ StoredKey(other)[1] = "Math" /\ entries[other].room = "B-2"

\* C34: when no commit fails between a delivery and its marking, the notifier
\* succeeds at most once for a Reminder over all ticks; is_sent never goes from
\* true back to false; and is_sent and message are written by the dispatcher's
\* mark_as_sent only.
C34_DeliveredAtMostOnce ==
    /\ [](\A r \in RemIds : remDelivered[r] <= 1)
    /\ [][\A r \in RemIds :
             /\ Sent(r) => Sent(r)' /\ remDelivered'[r] = remDelivered[r]
             /\ remDelivered'[r] /= remDelivered[r] =>
                   /\ ~Sent(r) /\ Sent(r)'
                   /\ remDelivered'[r] = remDelivered[r] + 1
             /\ (/\ reminders[r] /= NoRow /\ reminders'[r] /= NoRow
                 /\ \/ reminders'[r].is_sent /= reminders[r].is_sent
                    \/ reminders'[r].message /= reminders[r].message)
                => RemSendOk /\ remTick.r = r]_vars

\* a reminder delivered once and marked, and a later tick that has looked for due
\* reminders and left it alone
C34_Witness ==
    \E r \in RemIds :
        /\ Sent(r) /\ remDelivered[r] = 1
        /\ remTick.pc = "loop" /\ remTick.at > reminders[r].send_at
        /\ remTick.at = now /\ r \notin IdsOf(remTick.queue)
        /\ remTick.settings = NoRow

C35_PendingEventuallyReady ==
    /\ (<>[](settings /= NoRow /\ settings.auto_generate)) =>
           \A w \in WorkIds :
               (Exists(w) /\ works[w].status = "pending" /\ InGenerateWindow(w, now))
                   ~> (Exists(w) /\ works[w].status = "ready")
    /\ [][GenCallFail =>
             /\ works'[genTick.w].status = "pending"
             /\ genTick.w \in PendingWorks']_vars

\* C36: a confirmed work without scheduled_send_at does not stay confirmed for
\* ever: an upcoming send-check tick sends it (or the user takes it back to
\* pending by a regeneration).
C36_ConfirmedWithoutSendTime ==
    \A w \in WorkIds :
        (Exists(w) /\ works[w].status = "confirmed" /\ works[w].scheduled_send_at = NULL)
            ~> (Exists(w) /\ works[w].status /= "confirmed")
\* C39: while the user has no UserWorkSettings row, no pending work is moved to
\* generating (a generate-check item leaves the works as they are and starts no
\* generation), also after the deadline date has passed, although the settings
\* endpoint then answers auto_generate = true and generate_days_before = 5.
C39_NoSettingsNeverGenerated ==
    /\ [](settings = NoRow =>
            GetWorkSettings.auto_generate /\ GetWorkSettings.generate_days_before = 5)
    /\ [][settings = NoRow =>
            /\ \A w \in PendingWorks : works'[w] = works[w]
            /\ GenCheckItem => genTick'.w = 0]_vars

\* a tick taken after the deadline date has passed over the pending work of a user
\* without a settings row
C39_Witness ==
    /\ settings = NoRow
    /\ genTick.pc = "loop" /\ genTick.queue = <<>> /\ genTick.w = 0
    /\ \E w \in PendingWorks : genTick.at > deadlines[works[w].deadline_id].deadline_date

\* C37: over the ticks of the work-reminder job within one calendar day, the
\* reminder of a (deadline, days-before) pair is sent to the user at most once
\* (a pair is due on one calendar day only, the day of deadline_date - days).
C37_WorkReminderOncePerDay ==
    \A d \in WorkIds, days \in ReminderDays : workReminded.sent[d][days] <= 1

\* a tick holds a row of deadline d, queued or loaded
TickHolds(d) ==
    \/ \E i \in DOMAIN genTick.queue : genTick.queue[i].row.deadline_id = d
    \/ \E i \in DOMAIN sendTick.queue : sendTick.queue[i].row.deadline_id = d
    \/ \E i \in DOMAIN remTick.queue : remTick.queue[i].row.deadline_id = d
    \/ genTick.loaded /= NoRow /\ genTick.loaded.deadline_id = d
    \/ sendTick.loaded /= NoRow /\ sendTick.loaded.deadline_id = d
    \/ remTick.loaded /= NoRow /\ remTick.loaded.deadline_id = d

\* C33: once a deadline is deleted no reminder and no generated work references
\* it and no tick that starts afterwards holds a row of it; every delivery of a
\* reminder or a work and every change of a reminder or of a work's status is
\* for a deadline that is still there.
C33_DeletedDeadlineLeavesNothing ==
    /\ [](\A d \in WorkIds : deadlines[d] = Deleted =>
             /\ \A r \in RemIds : reminders[r] /= NoRow => reminders[r].deadline_id /= d
             /\ \A w \in WorkIds : Exists(w) => works[w].deadline_id /= d
             /\ ~TickHolds(d))
    /\ [][/\ \A r \in RemIds :
               \/ remDelivered'[r] /= remDelivered[r]
               \/ reminders[r] /= NoRow /\ reminders'[r] /= NoRow
                                        /\ reminders'[r] /= reminders[r]
               => reminders[r] /= NoRow /\ Live(reminders[r].deadline_id)
           /\ \A w \in WorkIds :
               \/ delivered'[w] /= delivered[w]
               \/ Exists(w) /\ works'[w] /= NoRow /\ works'[w].status /= works[w].status
               => Exists(w) /\ Live(works[w].deadline_id)]_vars

\* a reminder-dispatch tick that started after the deletion of a deadline whose
\* work and one of whose reminders had been delivered
C33_Witness ==
    /\ \E d \in WorkIds : deadlines[d] = Deleted
    /\ remTick.pc = "loop"
    /\ \E r \in RemIds : remDelivered[r] > 0
    /\ \E w \in WorkIds : delivered[w] > 0

====
